---- MODULE Spec2Model ----
(***************************************************************************)
(* kuron: scan lifecycle (internal/services/scanner.go), engine driver     *)
(* (fclones executor), durable store (internal/db/queries.go), the action  *)
(* endpoint (internal/handlers/jobs.go) and the cron scheduler             *)
(* (internal/scheduler/scheduler.go) as one state machine.                 *)
(*                                                                         *)
(* Goroutines are modelled as processes with a program counter each; a     *)
(* step is one lock-protected section, one store statement or one channel  *)
(* operation of the source.                                                *)
(***************************************************************************)
EXTENDS Integers, Sequences, FiniteSets, TLC

----------------------------------------------------------------------------
(* Bounds of the model *)

\* subscriber queues ever created by Subscribe
NumChans == 1
\* progress events the engine emits during one scan
MaxProgress == 1
\* capacity of a subscriber queue; the source uses 10 (scanner.go:42),
\* scaled down so that a full queue is reached
QueueCap == 1
\* capacity of the progress channel; the source uses 100 (scanner.go:124)
ProgressCap == 1
\* groups in one engine result
MaxGroups == 1
\* ExecuteAction calls in flight at once, and action rows
MaxRequests == 1
MaxActions == 1
\* scheduled jobs, runJob goroutines ever spawned, effective Start calls
NumJobs == 1
MaxTasks == 1
MaxStarts == 2
\* days the clock runs to, the largest retention (in days) a sweep is given,
\* and CompleteScanRun calls a caller of the store makes on one run
MaxTime == 2
MaxRetention == 1
MaxCompletes == 2
\* queues a subscriber list is made of, and the Subscribe and Unsubscribe
\* calls that have made the list
MaxSubscribers == 3
MaxListOps == 4
\* characters of a path and of an allowlist entry, entries of the allowlist
MaxPathLen == 5
MaxAllowedLen == 3
MaxAllowed == 1

\* ids of scan_runs rows; ScanRuns are the ids StartScan hands out, the
\* remaining id is never stored (an unknown run)
RunIds == {1, 2}
ScanRuns == {1}
Chans == 1..NumChans

Terminal == {"completed", "failed", "cancelled"}

----------------------------------------------------------------------------
VARIABLES
    \* scan_runs table: run id -> row [status, error, progress, completes],
    \* status "none" when the row does not exist; completes counts the
    \* CompleteScanRun statements applied to the row (history)
    scanRuns,
    \* duplicate_groups table: sequence of rows [run, count, status]; id = index
    groups,
    \* Scanner
    activeScans,    \* set of run ids with a registered cancel handle
    ctxCancelled,   \* run id -> the scan context is cancelled
    cancelAt,       \* run id -> where Group was when the context got cancelled (history)
    subs,           \* run id -> subscribers[runID] slice
    \* runScan goroutine
    taskPc, taskEv,
    \* executor.Group
    engineSt, childOutcome, engineRet, emitted,
    \* progress channel and relay goroutine
    progressChan, progressClosed, relayPc,
    \* broadcast calls in flight, one per broadcasting goroutine
    bcast,
    \* subscriber queues and their readers
    chQueue, chClosed, closeCount, clientPc, clientRun,
    \* queue -> the last event its reader took from it (history)
    lastRecv,
    \* the panic that ended the process ("" while it runs)
    crashed,
    \* actions table: sequence of rows, id = index; via and confirm record the
    \* caller and its confirm form value (history)
    actions,
    \* the link/dedupe/remove invocations made: [action, args, input] (history)
    engineCalls,
    \* ExecuteAction calls in flight
    reqPc, req,
    \* scheduled_jobs table: job id -> row
    jobs,
    \* Scheduler: running flag, number of Start calls that took effect (the
    \* n-th made stop channel n and root context n), closed stop channels,
    \* cancelled root contexts, WaitGroup counter
    schedRunning, starts, stopClosed, rootCancelled, wg,
    \* run goroutines, one per effective Start, and the due jobs their
    \* checkJobs pass has still to spawn
    loopPc, loopJobs,
    \* runJob goroutines: sequence of [job, ctx, pc, run, action]
    jobTasks,
    \* the caller of Stop, and whether Stop has returned with no Start since (history)
    stopPc, stopped,
    \* the clock (time.Now, in days) and the last CleanupOldData call: its
    \* retention and a bit that flips with every call (history)
    now, lastSweep,
    \* run id -> the configured scanTimeout has gone by since StartScan while
    \* the engine invocation of the run was still going on (history)
    overdue,
    \* queue -> what the ScanProgressSSE handler that reads it has done: late
    \* says that the run was in a terminal state at its Subscribe, sent is
    \* the statuses of the snapshots it has built from the run's row (history)
    sse,
    \* a Subscribe and the Unsubscribe of its queue applied to a subscriber
    \* list on its own: the list before, the new queue, the list in between
    \* and after, and the queues closed
    subCalc,
    \* an IsPathAllowed call: the allowlist, the path and the answer
    pathCalc

scanVars == <<scanRuns, groups, activeScans, ctxCancelled, cancelAt, subs,
              taskPc, taskEv, engineSt, childOutcome, engineRet, emitted,
              progressChan, progressClosed, relayPc, bcast,
              chQueue, chClosed, closeCount, clientPc, clientRun, lastRecv,
              crashed>>

actVars == <<actions, engineCalls, reqPc, req>>

schedVars == <<jobs, schedRunning, starts, stopClosed, rootCancelled, wg,
               loopPc, loopJobs, jobTasks, stopPc, stopped>>

storeVars == <<now, lastSweep, overdue>>

\* the variables of the checks of single operations
calcVars == <<subCalc, pathCalc>>

otherVars == <<actVars, schedVars, storeVars, sse, calcVars>>

vars == <<scanVars, otherVars>>

engineVars == <<engineSt, childOutcome, engineRet, emitted>>
chanVars == <<chQueue, chClosed, closeCount>>
clientVars == <<clientPc, clientRun, lastRecv>>

----------------------------------------------------------------------------
(* Slices: subscribers[runID] is a Go slice. arr is the backing array (its  *)
(* length is the capacity, 0 is a nil slot) and len the slice length.      *)

NilSlice == [arr |-> <<>>, len |-> 0]

\* append allocates a new backing array
Grows(s) == s.len = Len(s.arr)

SliceList(s) == SubSeq(s.arr, 1, s.len)

\* growslice for small slices: capacity doubles
NewCap(c) == IF c = 0 THEN 1 ELSE 2 * c

\* append(s, ch)
SliceAppend(s, ch) ==
    IF s.len < Len(s.arr)
    THEN [s EXCEPT !.arr = [s.arr EXCEPT ![s.len + 1] = ch], !.len = s.len + 1]
    ELSE [arr |-> [j \in 1..NewCap(Len(s.arr)) |->
                      IF j <= s.len THEN s.arr[j]
                      ELSE IF j = s.len + 1 THEN ch ELSE 0],
          len |-> s.len + 1]

\* append(subs[:i], subs[i+1:]...): shifts the tail in place
SliceRemoveAt(s, i) ==
    [s EXCEPT !.arr = [j \in 1..Len(s.arr) |->
                          IF j >= i /\ j < s.len THEN s.arr[j + 1] ELSE s.arr[j]],
              !.len = s.len - 1]

\* index of ch in the slice, 0 when absent (first match, as the loop breaks)
IndexOf(s, ch) ==
    IF \E i \in 1..s.len : s.arr[i] = ch
    THEN CHOOSE i \in 1..s.len : s.arr[i] = ch /\ \A j \in 1..(i - 1) : s.arr[j] # ch
    ELSE 0

----------------------------------------------------------------------------
(* Durable store: scan_runs *)

\* completed_at IS NULL
NullTime == 0

\* the paths argument of a scan, as the length of the list
PathCounts == {0, 1}

NoRow == [status |-> "none", error |-> "", progress |-> [by |-> "none", seq |-> 0],
          completes |-> 0, completedAt |-> NullTime, paths |-> 0]

\* INSERT INTO scan_runs ... status = running; paths is stored as the JSON
\* text of the list, "[]" for an empty one, and is not looked at
CreateScanRun(tbl, id, paths) ==
    [tbl EXCEPT ![id] = [status |-> "running", error |-> "",
                         progress |-> [by |-> "none", seq |-> 0], completes |-> 0,
                         completedAt |-> NullTime, paths |-> paths]]

\* a progress update that rewrites the status column too
UpdateScanRunProgressSetsRunning(tbl, id, p) ==
    IF tbl[id].status = "none" THEN tbl
    ELSE [tbl EXCEPT ![id].progress = p, ![id].status = "running"]

\* UPDATE scan_runs SET files_scanned = ?, ... WHERE id = ?
UpdateScanRunProgress(tbl, id, p) ==
    IF tbl[id].status = "none" THEN tbl
    ELSE [tbl EXCEPT ![id].progress = p]

\* a CompleteScanRun whose UPDATE never reaches the row
CompleteScanRunNotWritten(tbl, id, status, msg) == tbl

\* UPDATE scan_runs SET status = ?, completed_at = ?, error_message = ? WHERE id = ?
CompleteScanRun(tbl, id, status, msg) ==
    IF tbl[id].status = "none" THEN tbl
    ELSE [tbl EXCEPT ![id].status = status, ![id].error = msg,
                     ![id].completedAt = now, ![id].completes = @ + 1]

----------------------------------------------------------------------------
(* Durable store: duplicate_groups *)

\* engine results: a group is its number of files
GroupOutputs == UNION {[1..n -> {1, 2}] : n \in 0..MaxGroups}

\* runScan lines 170-192: one row per group with at least two files
RECURSIVE StoreGroups(_, _, _)
StoreGroups(tbl, run, out) ==
    IF out = <<>> THEN tbl
    ELSE StoreGroups(IF Head(out) < 2 THEN tbl
                     ELSE Append(tbl, [run |-> run, count |-> Head(out),
                                       status |-> "pending"]),
                     run, Tail(out))

----------------------------------------------------------------------------
(* Subscriber bus *)

BIds == {"task", "relay"} \X RunIds

\* no event: the zero value of what a broadcast carries
NoEvent == [status |-> "", seq |-> 0]

\* a broadcast call: ev the event, len the length of the copied slice header,
\* idx the next element to read; live: the header still points to the array
\* of subscribers[runID], otherwise frozen is the array it points to
IdleBcast == [on |-> FALSE, ev |-> NoEvent, live |-> FALSE, len |-> 0,
              frozen |-> <<>>, idx |-> 0]

\* a broadcast that still has elements of its snapshot to read
Sending(b) == bcast[b].on /\ bcast[b].idx <= bcast[b].len

BcastDone(b) == ~Sending(b)

\* the slice of run r is about to point to another array (or to none): the
\* snapshots taken from the current array keep it as it is now
Detach(bc, r) ==
    [b \in BIds |->
        IF b[2] = r /\ bc[b].on /\ bc[b].idx <= bc[b].len /\ bc[b].live
        THEN [bc[b] EXCEPT !.frozen = subs[r].arr, !.live = FALSE]
        ELSE bc[b]]

\* Subscribe: lines 38-45; pc is where its caller goes on
SubscribeCall(c, r, pc) ==
    /\ crashed = ""
    /\ clientPc[c] = "idle"
    /\ \A d \in 1..(c - 1) : clientPc[d] # "idle"
    /\ subs' = [subs EXCEPT ![r] = SliceAppend(@, c)]
    /\ bcast' = IF Grows(subs[r]) THEN Detach(bcast, r) ELSE bcast
    /\ clientPc' = [clientPc EXCEPT ![c] = pc]
    /\ clientRun' = [clientRun EXCEPT ![c] = r]
    /\ UNCHANGED <<scanRuns, groups, activeScans, ctxCancelled, cancelAt,
                   taskPc, taskEv, engineVars, progressChan, progressClosed,
                   relayPc, chanVars, lastRecv, crashed>>

\* a reader that reads its queue from the Subscribe on
Subscribe(c, r) == SubscribeCall(c, r, "subscribed") /\ UNCHANGED otherVars

\* an Unsubscribe that takes the first queue out of the list
UnsubscribeSliceHead(s, ch) ==
    LET t == IF IndexOf(s, ch) = 0 THEN s ELSE SliceRemoveAt(s, 1)
    IN  IF t.len = 0 THEN NilSlice ELSE t

\* result of Unsubscribe on the slice: lines 52-64
UnsubscribeSlice(s, ch) ==
    LET i == IndexOf(s, ch)
        t == IF i = 0 THEN s ELSE SliceRemoveAt(s, i)
    IN  IF t.len = 0 THEN NilSlice ELSE t

\* an Unsubscribe that closes the queue whether or not it found it
UnsubscribeClosesAlways(s, ch) == {ch}

\* channels Unsubscribe closes: the one it found in the list
UnsubscribeCloses(s, ch) == IF IndexOf(s, ch) = 0 THEN {} ELSE {ch}

\* close(ch) for every ch of cs; closing a closed channel panics
CloseAll(cs) ==
    /\ chClosed' = [c \in Chans |-> chClosed[c] \/ c \in cs]
    /\ closeCount' = [c \in Chans |-> closeCount[c] + (IF c \in cs THEN 1 ELSE 0)]
    /\ crashed' = IF \E c \in cs : chClosed[c] THEN "close of closed channel" ELSE ""

\* Unsubscribe: lines 48-65; a reader may call it again for the same queue.
\* The reader has left: what its queue still holds is never read, and what
\* it has read is no longer followed
Unsubscribe(c) ==
    /\ crashed = ""
    /\ UNCHANGED otherVars
    /\ clientPc[c] \in {"subscribed", "gone", "finished"}
    /\ LET r == clientRun[c]
           s == UnsubscribeSlice(subs[r], c) IN
         /\ subs' = [subs EXCEPT ![r] = s]
         /\ bcast' = IF s = NilSlice THEN Detach(bcast, r) ELSE bcast
         /\ CloseAll(UnsubscribeCloses(subs[r], c))
    /\ clientPc' = [clientPc EXCEPT ![c] = "gone"]
    /\ chQueue' = [chQueue EXCEPT ![c] = <<>>]
    /\ lastRecv' = [lastRecv EXCEPT ![c] = NoEvent]
    /\ UNCHANGED <<scanRuns, groups, activeScans, ctxCancelled, cancelAt,
                   taskPc, taskEv, engineVars, progressChan, progressClosed,
                   relayPc, clientRun>>

\* a reader takes the next event of its queue
Receive(c) ==
    /\ crashed = ""
    /\ UNCHANGED otherVars
    /\ clientPc[c] = "subscribed"
    /\ chQueue[c] # <<>>
    /\ chQueue' = [chQueue EXCEPT ![c] = Tail(@)]
    /\ lastRecv' = [lastRecv EXCEPT ![c] = Head(chQueue[c])]
    /\ UNCHANGED <<scanRuns, groups, activeScans, ctxCancelled, cancelAt, subs,
                   taskPc, taskEv, engineVars, progressChan, progressClosed,
                   relayPc, bcast, chClosed, closeCount, clientPc, clientRun, crashed>>

\* broadcast lines 69-71: the slice header is copied under the read lock
Snapshot(r, ev) ==
    IF subs[r].len = 0 THEN IdleBcast
    ELSE [on |-> TRUE, ev |-> ev, live |-> TRUE, len |-> subs[r].len,
          frozen |-> <<>>, idx |-> 1]

\* the non-blocking send of line 74-78 has room
HasRoom(q) == Len(q) < QueueCap

\* the element the range loop of broadcast reads next: from the array the
\* copied header points to, without the lock
BcastTarget(b) ==
    LET s == bcast[b]
        a == IF s.live THEN subs[b[2]].arr ELSE s.frozen
    IN  a[s.idx]

\* broadcast lines 73-79, one iteration
BcastSend(b) ==
    /\ crashed = ""
    /\ UNCHANGED otherVars
    /\ Sending(b)
    /\ LET s == bcast[b]
           ch == BcastTarget(b)
           nxt == IF s.idx = s.len THEN IdleBcast ELSE [s EXCEPT !.idx = @ + 1]
       IN IF chClosed[ch]
          THEN /\ crashed' = "send on closed channel"
               /\ UNCHANGED <<bcast, chQueue>>
          ELSE /\ chQueue' = [chQueue EXCEPT ![ch] =
                                IF HasRoom(@) THEN Append(@, s.ev) ELSE @]
               /\ bcast' = [bcast EXCEPT ![b] = nxt]
               /\ UNCHANGED crashed
    /\ UNCHANGED <<scanRuns, groups, activeScans, ctxCancelled, cancelAt, subs,
                   taskPc, taskEv, engineVars, progressChan, progressClosed,
                   relayPc, chClosed, closeCount, clientVars>>

----------------------------------------------------------------------------
(* Scanner: StartScan, CancelScan *)

\* StartScan lines 94-112: row, cancel handle, scan goroutine (which creates
\* the progress channel and starts the relay, lines 124-145, and calls Group).
\* Its callers (the handlers and runJob) turn an empty paths list away before
\* they call it, so the list it is given has an entry.
StartScanCall(r) ==
    /\ crashed = ""
    /\ scanRuns[r].status = "none"
    /\ scanRuns' = CreateScanRun(scanRuns, r, 1)
    /\ activeScans' = activeScans \cup {r}
    /\ taskPc' = [taskPc EXCEPT ![r] = "group"]
    /\ engineSt' = [engineSt EXCEPT ![r] = "child"]
    /\ relayPc' = [relayPc EXCEPT ![r] = "recv"]
    /\ UNCHANGED <<groups, ctxCancelled, cancelAt, subs, taskEv, childOutcome,
                   engineRet, emitted, progressChan, progressClosed, bcast,
                   chanVars, clientVars, crashed>>

\* a scan started by a request of the web interface
StartScan(r) == StartScanCall(r) /\ UNCHANGED otherVars

\* where the scan is: inside Group (child, drained, wait) or, once Group has
\* returned, at the scan task's position
ScanPoint(r) == IF engineSt[r] = "returned" THEN taskPc[r] ELSE engineSt[r]

\* a CancelScan that cancels whether or not the run is registered
CancelCtxAny(active, ctx, r) == [ctx EXCEPT ![r] = TRUE]

\* CancelScan lines 218-226: the effect on the scan contexts
CancelCtx(active, ctx, r) ==
    IF r \in active THEN [ctx EXCEPT ![r] = TRUE] ELSE ctx

\* a CancelScan that records the cancellation itself
CancelScanWritesTerminal(r) ==
    /\ crashed = ""
    /\ UNCHANGED otherVars
    /\ ctxCancelled' = CancelCtx(activeScans, ctxCancelled, r)
    /\ cancelAt' = IF ctxCancelled'[r] /\ ~ctxCancelled[r]
                   THEN [cancelAt EXCEPT ![r] = ScanPoint(r)] ELSE cancelAt
    /\ scanRuns' = IF r \in activeScans
                   THEN CompleteScanRun(scanRuns, r, "cancelled", "Scan cancelled")
                   ELSE scanRuns
    /\ UNCHANGED <<groups, activeScans, subs, taskPc, taskEv, engineVars,
                   progressChan, progressClosed, relayPc, bcast, chanVars,
                   clientVars, crashed>>

CancelScan(r) ==
    /\ crashed = ""
    /\ UNCHANGED otherVars
    /\ ctxCancelled' = CancelCtx(activeScans, ctxCancelled, r)
    /\ cancelAt' = IF ctxCancelled'[r] /\ ~ctxCancelled[r]
                   THEN [cancelAt EXCEPT ![r] = ScanPoint(r)] ELSE cancelAt
    /\ UNCHANGED <<scanRuns, groups, activeScans, subs, taskPc, taskEv, engineVars,
                   progressChan, progressClosed, relayPc, bcast, chanVars,
                   clientVars, crashed>>

----------------------------------------------------------------------------
(* Engine driver: Executor.Group *)

\* parseProgressLine: a progress event is sent without blocking
EngineProgress(r) ==
    /\ crashed = ""
    /\ UNCHANGED otherVars
    /\ engineSt[r] = "child"
    /\ emitted[r] < MaxProgress
    /\ emitted' = [emitted EXCEPT ![r] = @ + 1]
    /\ progressChan' = [progressChan EXCEPT ![r] =
                          IF Len(@) < ProgressCap THEN Append(@, emitted[r] + 1) ELSE @]
    /\ UNCHANGED <<scanRuns, groups, activeScans, ctxCancelled, cancelAt, subs,
                   taskPc, taskEv, engineSt, childOutcome, engineRet,
                   progressClosed, relayPc, bcast, chanVars, clientVars, crashed>>

\* cmd.Start fails: Group returns before any output is read
EngineSpawnFail(r) ==
    /\ crashed = ""
    /\ UNCHANGED otherVars
    /\ engineSt[r] = "child"
    /\ emitted[r] = 0
    /\ engineSt' = [engineSt EXCEPT ![r] = "returned"]
    /\ engineRet' = [engineRet EXCEPT ![r] = "spawnerr"]
    /\ UNCHANGED <<scanRuns, groups, activeScans, ctxCancelled, cancelAt, subs,
                   taskPc, taskEv, childOutcome, emitted, progressChan,
                   progressClosed, relayPc, bcast, chanVars, clientVars, crashed>>

\* how the child can have ended when its output is at EOF (a cancelled
\* context kills it, which the check of ctx.Err() reports first)
ChildOutcomes(cancelled) ==
    {"ok", "exitfail", "badjson"}

\* stdout and stderr reach EOF: io.Copy and wg.Wait return
EngineOutputDone(r) ==
    /\ crashed = ""
    /\ UNCHANGED otherVars
    /\ engineSt[r] = "child"
    /\ \E o \in ChildOutcomes(ctxCancelled[r]) :
         childOutcome' = [childOutcome EXCEPT ![r] = o]
    /\ engineSt' = [engineSt EXCEPT ![r] = "drained"]
    /\ UNCHANGED <<scanRuns, groups, activeScans, ctxCancelled, cancelAt, subs,
                   taskPc, taskEv, engineRet, emitted, progressChan,
                   progressClosed, relayPc, bcast, chanVars, clientVars, crashed>>

\* "if ctx.Err() != nil { return nil, ctx.Err() }"
EngineCtxCheck(r) ==
    /\ crashed = ""
    /\ UNCHANGED otherVars
    /\ engineSt[r] = "drained"
    /\ IF ctxCancelled[r]
       THEN /\ engineSt' = [engineSt EXCEPT ![r] = "returned"]
            /\ engineRet' = [engineRet EXCEPT ![r] = "ctxerr"]
       ELSE /\ engineSt' = [engineSt EXCEPT ![r] = "wait"]
            /\ UNCHANGED engineRet
    /\ UNCHANGED <<scanRuns, groups, activeScans, ctxCancelled, cancelAt, subs,
                   taskPc, taskEv, childOutcome, emitted, progressChan,
                   progressClosed, relayPc, bcast, chanVars, clientVars, crashed>>

\* what cmd.Wait and json.Unmarshal make of the child's end; a child that
\* has written its output can still be killed before it exits
WaitResults(o, cancelled) ==
    CASE o = "ok"       -> {"ok"} \cup (IF cancelled THEN {"exiterr"} ELSE {})
      [] o = "badjson"  -> {"parseerr"} \cup (IF cancelled THEN {"exiterr"} ELSE {})
      [] OTHER          -> {"exiterr"}

EngineWait(r) ==
    /\ crashed = ""
    /\ UNCHANGED otherVars
    /\ engineSt[r] = "wait"
    /\ \E res \in WaitResults(childOutcome[r], ctxCancelled[r]) :
         engineRet' = [engineRet EXCEPT ![r] = res]
    /\ engineSt' = [engineSt EXCEPT ![r] = "returned"]
    /\ UNCHANGED <<scanRuns, groups, activeScans, ctxCancelled, cancelAt, subs,
                   taskPc, taskEv, childOutcome, emitted, progressChan,
                   progressClosed, relayPc, bcast, chanVars, clientVars, crashed>>

----------------------------------------------------------------------------
(* Progress relay goroutine: runScan lines 128-145 *)

\* "for progress := range progressChan": next event, UpdateScanRunProgress
RelayRecv(r) ==
    /\ crashed = ""
    /\ UNCHANGED otherVars
    /\ relayPc[r] = "recv"
    /\ BcastDone(<<"relay", r>>)
    /\ progressChan[r] # <<>>
    /\ progressChan' = [progressChan EXCEPT ![r] = Tail(@)]
    /\ scanRuns' = UpdateScanRunProgress(scanRuns, r,
                      [by |-> "relay", seq |-> Head(progressChan[r])])
    /\ relayPc' = [relayPc EXCEPT ![r] = "bcast"]
    /\ taskEv' = [taskEv EXCEPT !["relay", r] =
                      [status |-> "running", seq |-> Head(progressChan[r])]]
    /\ UNCHANGED <<groups, activeScans, ctxCancelled, cancelAt, subs, taskPc,
                   engineVars, progressClosed, bcast, chanVars, clientVars, crashed>>

\* s.broadcast(runID, {..., Status: "running"}): the snapshot
RelayBroadcast(r) ==
    /\ crashed = ""
    /\ UNCHANGED otherVars
    /\ relayPc[r] = "bcast"
    /\ bcast' = [bcast EXCEPT ![<<"relay", r>>] = Snapshot(r, taskEv["relay", r])]
    /\ relayPc' = [relayPc EXCEPT ![r] = "recv"]
    /\ UNCHANGED <<scanRuns, groups, activeScans, ctxCancelled, cancelAt, subs,
                   taskPc, taskEv, engineVars, progressChan, progressClosed,
                   chanVars, clientVars, crashed>>

\* the range loop ends when the channel is closed and drained
RelayExit(r) ==
    /\ crashed = ""
    /\ UNCHANGED otherVars
    /\ relayPc[r] = "recv"
    /\ BcastDone(<<"relay", r>>)
    /\ progressChan[r] = <<>>
    /\ progressClosed[r]
    /\ relayPc' = [relayPc EXCEPT ![r] = "exit"]
    /\ UNCHANGED <<scanRuns, groups, activeScans, ctxCancelled, cancelAt, subs,
                   taskPc, taskEv, engineVars, progressChan, progressClosed,
                   bcast, chanVars, clientVars, crashed>>

----------------------------------------------------------------------------
(* Scan task: runScan lines 153-215 and its deferred calls *)

\* a failure branch that does not look at the context
FailStatusIgnoresCtx(ret, cancelled) == "failed"

\* lines 154-167: the terminal status of a failed Group call
FailStatus(ret, cancelled) == IF cancelled THEN "cancelled" ELSE "failed"

FailMessage(ret, cancelled) == IF cancelled THEN "Scan cancelled" ELSE ret

\* Group returned an error: CompleteScanRun(cancelled | failed)
TaskFail(r) ==
    /\ crashed = ""
    /\ UNCHANGED otherVars
    /\ taskPc[r] = "group"
    /\ engineSt[r] = "returned"
    /\ engineRet[r] # "ok"
    /\ scanRuns' = CompleteScanRun(scanRuns, r,
                      FailStatus(engineRet[r], ctxCancelled[r]),
                      FailMessage(engineRet[r], ctxCancelled[r]))
    /\ taskEv' = [taskEv EXCEPT !["task", r] =
                      [status |-> FailStatus(engineRet[r], ctxCancelled[r]), seq |-> 0]]
    /\ taskPc' = [taskPc EXCEPT ![r] = "bcast"]
    /\ UNCHANGED <<groups, activeScans, ctxCancelled, cancelAt, subs, engineVars,
                   progressChan, progressClosed, relayPc, bcast, chanVars,
                   clientVars, crashed>>

\* a scan task that marks the run completed before it stores the groups
TaskStoreAfterComplete(r) ==
    /\ crashed = ""
    /\ UNCHANGED otherVars
    /\ taskPc[r] = "group"
    /\ engineSt[r] = "returned"
    /\ engineRet[r] = "ok"
    /\ IF scanRuns[r].status = "running"
       THEN /\ scanRuns' = CompleteScanRun(scanRuns, r, "completed", "")
            /\ UNCHANGED <<groups, taskPc>>
       ELSE /\ \E out \in GroupOutputs : groups' = StoreGroups(groups, r, out)
            /\ taskPc' = [taskPc EXCEPT ![r] = "complete"]
            /\ UNCHANGED scanRuns
    /\ UNCHANGED <<activeScans, ctxCancelled, cancelAt, subs, taskEv, engineVars,
                   progressChan, progressClosed, relayPc, bcast, chanVars,
                   clientVars, crashed>>

\* Group succeeded: lines 170-201, the groups and the final counters
TaskStore(r) ==
    /\ crashed = ""
    /\ UNCHANGED otherVars
    /\ taskPc[r] = "group"
    /\ engineSt[r] = "returned"
    /\ engineRet[r] = "ok"
    /\ \E out \in GroupOutputs : groups' = StoreGroups(groups, r, out)
    /\ scanRuns' = UpdateScanRunProgress(scanRuns, r, [by |-> "stats", seq |-> 0])
    /\ taskPc' = [taskPc EXCEPT ![r] = "complete"]
    /\ UNCHANGED <<activeScans, ctxCancelled, cancelAt, subs, taskEv, engineVars,
                   progressChan, progressClosed, relayPc, bcast, chanVars,
                   clientVars, crashed>>

\* line 204: CompleteScanRun(completed)
TaskComplete(r) ==
    /\ crashed = ""
    /\ UNCHANGED otherVars
    /\ taskPc[r] = "complete"
    /\ scanRuns' = CompleteScanRun(scanRuns, r, "completed", "")
    /\ taskEv' = [taskEv EXCEPT !["task", r] = [status |-> "completed", seq |-> 0]]
    /\ taskPc' = [taskPc EXCEPT ![r] = "bcast"]
    /\ UNCHANGED <<groups, activeScans, ctxCancelled, cancelAt, subs, engineVars,
                   progressChan, progressClosed, relayPc, bcast, chanVars,
                   clientVars, crashed>>

\* the broadcast of the terminal status (lines 159, 165, 205): the snapshot
TaskBroadcast(r) ==
    /\ crashed = ""
    /\ UNCHANGED otherVars
    /\ taskPc[r] = "bcast"
    /\ bcast' = [bcast EXCEPT ![<<"task", r>>] = Snapshot(r, taskEv["task", r])]
    /\ taskPc' = [taskPc EXCEPT ![r] = "return"]
    /\ UNCHANGED <<scanRuns, groups, activeScans, ctxCancelled, cancelAt, subs,
                   taskEv, engineVars, progressChan, progressClosed, relayPc,
                   chanVars, clientVars, crashed>>

\* a return whose deferred function leaves the cancel handle registered
TaskReturnKeepsHandle(r) ==
    /\ crashed = ""
    /\ UNCHANGED otherVars
    /\ taskPc[r] = "return"
    /\ BcastDone(<<"task", r>>)
    /\ progressClosed' = [progressClosed EXCEPT ![r] = TRUE]
    /\ taskPc' = [taskPc EXCEPT ![r] = "closesubs"]
    /\ UNCHANGED <<scanRuns, groups, activeScans, ctxCancelled, cancelAt, subs, taskEv,
                   engineVars, progressChan, relayPc, bcast, chanVars, clientVars,
                   crashed>>

\* return: deferred close(progressChan) (line 125), then the deferred
\* function's delete(s.activeScans, runID) (lines 117-119)
TaskReturn(r) ==
    /\ crashed = ""
    /\ UNCHANGED otherVars
    /\ taskPc[r] = "return"
    /\ BcastDone(<<"task", r>>)
    /\ progressClosed' = [progressClosed EXCEPT ![r] = TRUE]
    /\ activeScans' = activeScans \ {r}
    /\ taskPc' = [taskPc EXCEPT ![r] = "closesubs"]
    /\ UNCHANGED <<scanRuns, groups, ctxCancelled, cancelAt, subs, taskEv,
                   engineVars, progressChan, relayPc, bcast, chanVars, clientVars,
                   crashed>>

\* closeSubscribers lines 83-91 (deferred, line 120)
CloseSubscribers(r) ==
    /\ crashed = ""
    /\ UNCHANGED otherVars
    /\ taskPc[r] = "closesubs"
    /\ CloseAll({subs[r].arr[i] : i \in 1..subs[r].len})
    /\ subs' = [subs EXCEPT ![r] = NilSlice]
    /\ bcast' = Detach(bcast, r)
    /\ taskPc' = [taskPc EXCEPT ![r] = "done"]
    /\ UNCHANGED <<scanRuns, groups, activeScans, ctxCancelled, cancelAt, taskEv,
                   engineVars, progressChan, progressClosed, relayPc, chQueue,
                   clientVars>>

----------------------------------------------------------------------------
(* Actions on duplicate groups *)

ActionTypes == {"hardlink", "reflink", "remove"}
Priorities == {"", "newest"}
Reqs == 1..MaxRequests

NoReq == [action |-> 0, ids |-> {}, type |-> "", dryRun |-> FALSE, priority |-> "",
          input |-> {}, err |-> FALSE, output |-> ""]

\* err.Error() of a failed engine invocation, and what the engine had
\* written by then
EngineError == "exit status 1"
EngineOutput == "out"

\* a message made of the engine error alone
ActionErrMsgWithoutOutput(err, output) == <<err>>

\* ExecuteAction line 272: err.Error() + "\n" + output, as the list of its parts
ActionErrMsg(err, output) == <<err, "\n", output>>

\* argv of the link subcommand
Link(opts) ==
    <<"link">> \o (IF opts.DryRun THEN <<"--dry-run">> ELSE <<>>)
               \o (IF opts.Soft THEN <<"--soft">> ELSE <<>>)

\* argv of the dedupe subcommand
Dedupe(opts) ==
    <<"dedupe">> \o (IF opts.DryRun THEN <<"--dry-run">> ELSE <<>>)

\* a remove that never asks for a dry run
RemoveForReal(opts) ==
    <<"remove">> \o (IF opts.Priority # "" THEN <<"--priority", opts.Priority>> ELSE <<>>)

\* argv of the remove subcommand
Remove(opts) ==
    <<"remove">> \o (IF opts.DryRun THEN <<"--dry-run">> ELSE <<>>)
                 \o (IF opts.Priority # "" THEN <<"--priority", opts.Priority>> ELSE <<>>)

\* the remove branch of ExecuteAction's dispatch: kind remove goes to
\* Remove with the priority (the ExecuteAction of scanner.go has the
\* hardlink and reflink branches)
ExecuteRemove(dryRun, priority) == Remove([DryRun |-> dryRun, Priority |-> priority])

\* ExecuteAction lines 264-269: the engine invocation for an action type
EngineArgs(type, dryRun, priority) ==
    IF type = "hardlink" THEN Link([DryRun |-> dryRun, Soft |-> FALSE])
    ELSE IF type = "remove" THEN ExecuteRemove(dryRun, priority)
    ELSE Dedupe([DryRun |-> dryRun])

\* ExecuteAction lines 242-262: the groups GetDuplicateGroup finds, less those
\* GroupToInput drops for having fewer than two files
GroupToInput(tbl, ids) == {g \in ids \cap DOMAIN tbl : tbl[g].count >= 2}

\* INSERT INTO actions (scan_run_id, action_type, dry_run, started_at, status)
CreateAction(tbl, run, type, dryRun, via, confirm) ==
    Append(tbl, [run |-> run, type |-> type, dryRun |-> dryRun, status |-> "running",
                 groupsProcessed |-> 0, via |-> via, confirm |-> confirm,
                 completedAt |-> NullTime, error |-> <<>>, ret |-> ""])

\* UPDATE actions SET groups_processed = ?, ..., status = ?, error_message = ?
\* WHERE id = ? (a nil message is <<>>)
CompleteAction(tbl, id, n, status, msg) ==
    [tbl EXCEPT ![id].status = status, ![id].groupsProcessed = n,
                ![id].completedAt = now, ![id].error = msg]

\* UPDATE duplicate_groups SET status = ? WHERE id IN (...)
UpdateDuplicateGroupStatus(tbl, ids, status) ==
    [g \in DOMAIN tbl |-> IF g \in ids THEN [tbl[g] EXCEPT !.status = status] ELSE tbl[g]]

\* a finish that marks the groups whatever the flag
MarkAlways(tbl, ids, dryRun) == UpdateDuplicateGroupStatus(tbl, ids, "processed")

\* a finish that puts the groups of a dry run back to pending
MarkResetsOnDryRun(tbl, ids, dryRun) ==
    UpdateDuplicateGroupStatus(tbl, ids, IF dryRun THEN "pending" ELSE "processed")

\* ExecuteAction lines 288-292: mark groups as processed (unless dry run)
MarkProcessed(tbl, ids, dryRun) ==
    IF ~dryRun THEN UpdateDuplicateGroupStatus(tbl, ids, "processed") ELSE tbl

\* ExecuteAction lines 230-262: the action row and the engine input
ExecuteAction(q, run, ids, type, dryRun, priority, via, confirm) ==
    /\ reqPc[q] = "idle"
    /\ \A p \in Reqs : p < q => reqPc[p] # "idle"
    /\ Len(actions) < MaxActions
    /\ actions' = CreateAction(actions, run, type, dryRun, via, confirm)
    /\ req' = [req EXCEPT ![q] = [action |-> Len(actions) + 1, ids |-> ids,
                                  type |-> type, dryRun |-> dryRun,
                                  priority |-> priority,
                                  input |-> GroupToInput(groups, ids), err |-> FALSE,
                                  output |-> ""]]
    /\ reqPc' = [reqPc EXCEPT ![q] = "engine"]
    /\ UNCHANGED <<scanVars, engineCalls, storeVars, sse, calcVars>>

\* a handler that takes every request for a confirmed one
DryRunNever(confirm) == FALSE

\* HandleAction lines 879-881: always preview first unless explicitly confirming
DryRunOf(confirm) == ~confirm

\* POST /scans/runs/{id}/action with group_ids, action, confirm, remove-priority
HandleAction(q, run, ids, action, confirm, priority) ==
    /\ ids # {}
    /\ action \in ActionTypes
    /\ ExecuteAction(q, run, ids, action, DryRunOf(confirm), priority, "endpoint", confirm)
    /\ UNCHANGED schedVars

\* ListDuplicateGroups(runID, "pending")
PendingGroups(tbl, run) == {g \in DOMAIN tbl : tbl[g].run = run /\ tbl[g].status = "pending"}

\* waitAndExecuteAction lines 185-221: the post-scan action of a scheduled job
ScheduledAction(q, run, type) ==
    /\ scanRuns[run].status = "completed"
    /\ PendingGroups(groups, run) # {}
    /\ type \in {"hardlink", "reflink"}
    /\ ExecuteAction(q, run, PendingGroups(groups, run), type, FALSE, "", "scheduler", FALSE)
    /\ UNCHANGED schedVars

\* ExecuteAction lines 264-269: the engine runs; it succeeds or fails
ActionEngine(q) ==
    /\ reqPc[q] = "engine"
    /\ engineCalls' = engineCalls \cup
           {[action |-> req[q].action, input |-> req[q].input,
             args |-> EngineArgs(req[q].type, req[q].dryRun, req[q].priority)]}
    /\ \E err \in BOOLEAN :
         req' = [req EXCEPT ![q].err = err,
                            ![q].output = IF err THEN EngineOutput ELSE ""]
    /\ reqPc' = [reqPc EXCEPT ![q] = "finish"]
    /\ UNCHANGED <<scanVars, actions, schedVars, storeVars, sse, calcVars>>

\* ExecuteAction lines 271-296; ret is what the call returns as its error
ActionFinish(q) ==
    /\ reqPc[q] = "finish"
    /\ IF req[q].err
       THEN /\ actions' = [CompleteAction(actions, req[q].action,
                                          Cardinality(req[q].ids), "failed",
                                          ActionErrMsg(EngineError, req[q].output))
                             EXCEPT ![req[q].action].ret = EngineError]
            /\ UNCHANGED groups
       ELSE /\ groups' = MarkProcessed(groups, req[q].ids, req[q].dryRun)
            /\ actions' = [CompleteAction(actions, req[q].action,
                                          Cardinality(req[q].ids), "completed", <<>>)
                             EXCEPT ![req[q].action].ret = "nil"]
    /\ reqPc' = [reqPc EXCEPT ![q] = "idle"]
    /\ req' = [req EXCEPT ![q] = NoReq]
    /\ UNCHANGED <<scanRuns, activeScans, ctxCancelled, cancelAt, subs, taskPc, taskEv,
                   engineVars, progressChan, progressClosed, relayPc, bcast, chanVars,
                   clientVars, crashed, engineCalls, schedVars, storeVars, sse, calcVars>>

----------------------------------------------------------------------------
(* Scheduler *)

Jobs == 1..NumJobs
Epochs == 1..MaxStarts

\* the rows a scheduled job can have: next_run_at is NULL, not after now
\* ("due") or in the future ("later"); the cron expression parses or not,
\* and one that parses has a fire time or none (a day that no month has);
\* last_run_at is NULL (0) or the launch time of a run
JobRows ==
    {row \in [enabled : BOOLEAN, nextRun : {"null", "due", "later"}, cronOk : BOOLEAN,
              cronFires : BOOLEAN, hasPaths : BOOLEAN, lastRun : {0},
              action : {"scan", "scan_hardlink", "scan_reflink"}] :
        row.cronFires => row.cronOk}

NoJob == [enabled |-> FALSE, nextRun |-> "null", cronOk |-> TRUE, cronFires |-> TRUE,
          hasPaths |-> TRUE, lastRun |-> 0, action |-> "scan"]

NoSweep == [days |-> 0, flip |-> FALSE]

\* a queue no ScanProgressSSE handler has subscribed
NoHandler == [late |-> FALSE, sent |-> <<>>, complete |-> ""]

\* no Subscribe applied to a list on its own
NoSubCalc == [pc |-> "idle", before |-> NilSlice, ch |-> 0, mid |-> NilSlice,
              after |-> NilSlice, closed |-> {}]

\* no IsPathAllowed call made
NoPathCalc == [pc |-> "idle", allowed |-> <<>>, path |-> <<>>, result |-> FALSE]

CalcIdle == subCalc = NoSubCalc /\ pathCalc = NoPathCalc

\* the clock at the start, and no retention sweep made yet
StoreIdle ==
    /\ now = 1
    /\ lastSweep = NoSweep
    /\ overdue = [r \in RunIds |-> FALSE]
    /\ sse = [c \in Chans |-> NoHandler]

\* scheduler.New
SchedIdle ==
    /\ schedRunning = FALSE
    /\ starts = 0
    /\ stopClosed = [e \in Epochs |-> FALSE]
    /\ rootCancelled = [e \in Epochs |-> FALSE]
    /\ wg = 0
    /\ loopPc = [e \in Epochs |-> "none"]
    /\ loopJobs = [e \in Epochs |-> <<>>]
    /\ jobTasks = <<>>
    /\ stopPc = "idle"
    /\ stopped = FALSE

\* Start lines 37-52
SchedStart ==
    /\ ~schedRunning
    /\ starts < MaxStarts
    /\ schedRunning' = TRUE
    /\ starts' = starts + 1
    /\ loopPc' = [loopPc EXCEPT ![starts + 1] = "check"]
    /\ stopped' = FALSE
    /\ UNCHANGED <<storeVars, sse, calcVars, scanVars, actVars, jobs, stopClosed, rootCancelled, wg, loopJobs,
                   jobTasks, stopPc>>

\* Stop lines 56-68: the part under the lock
SchedStop ==
    /\ stopPc = "idle"
    /\ schedRunning
    /\ schedRunning' = FALSE
    /\ stopClosed' = [stopClosed EXCEPT ![starts] = TRUE]
    /\ rootCancelled' = [rootCancelled EXCEPT ![starts] = TRUE]
    /\ stopPc' = "wait"
    /\ UNCHANGED <<storeVars, sse, calcVars, scanVars, actVars, jobs, starts, wg, loopPc, loopJobs, jobTasks,
                   stopped>>

\* Stop line 71: wg.Wait() returns when the counter is zero
StopWait ==
    /\ stopPc = "wait"
    /\ wg = 0
    /\ stopPc' = "idle"
    /\ stopped' = TRUE
    /\ UNCHANGED <<storeVars, sse, calcVars, scanVars, actVars, jobs, schedRunning, starts, stopClosed,
                   rootCancelled, wg, loopPc, loopJobs, jobTasks>>

RECURSIVE SeqOf(_)
\* the members of a set of job ids in id order
SeqOf(S) ==
    IF S = {} THEN <<>>
    ELSE LET m == CHOOSE x \in S : \A y \in S : x <= y IN <<m>> \o SeqOf(S \ {m})

\* a pass that takes the disabled jobs too
DueJobsOfAll(tbl) == SeqOf({j \in Jobs : tbl[j].nextRun = "due"})

\* checkJobs lines 102-107 over GetEnabledJobs: the jobs it will spawn
DueJobs(tbl) == SeqOf({j \in Jobs : tbl[j].enabled /\ tbl[j].nextRun = "due"})

\* checkJobs lines 94-100: the job list and the time are read; cap bounds the
\* number of job tasks the model follows
LoopGetJobsUpTo(e, cap) ==
    /\ loopPc[e] = "check"
    /\ Len(jobTasks) + Len(DueJobs(jobs)) <= cap
    /\ loopJobs' = [loopJobs EXCEPT ![e] = DueJobs(jobs)]
    /\ loopPc' = [loopPc EXCEPT ![e] = IF DueJobs(jobs) = <<>> THEN "select" ELSE "spawn"]
    /\ UNCHANGED <<storeVars, sse, calcVars, scanVars, actVars, jobs, schedRunning, starts, stopClosed,
                   rootCancelled, wg, jobTasks, stopPc, stopped>>

LoopGetJobs(e) == LoopGetJobsUpTo(e, MaxTasks)

\* checkJobs lines 108-109: s.wg.Add(1); go s.runJob(ctx, job)
LoopSpawn(e) ==
    /\ loopPc[e] = "spawn"
    /\ wg' = wg + 1
    /\ jobTasks' = Append(jobTasks, [job |-> Head(loopJobs[e]), ctx |-> e, pc |-> "start",
                                     run |-> 0, action |-> 0])
    /\ loopJobs' = [loopJobs EXCEPT ![e] = Tail(loopJobs[e])]
    /\ loopPc' = [loopPc EXCEPT ![e] = IF Len(loopJobs[e]) = 1 THEN "select" ELSE "spawn"]
    /\ UNCHANGED <<storeVars, sse, calcVars, scanVars, actVars, jobs, schedRunning, starts, stopClosed,
                   rootCancelled, stopPc, stopped>>

\* run lines 82-89: the select; s.stopChan is read without the lock, so after
\* a restart the loop may see a later channel
LoopSelect(e) ==
    /\ loopPc[e] = "select"
    /\ \/ /\ \E c \in e..starts : stopClosed[c]
          /\ loopPc' = [loopPc EXCEPT ![e] = "done"]
       \/ loopPc' = [loopPc EXCEPT ![e] = "check"]
    /\ UNCHANGED <<storeVars, sse, calcVars, scanVars, actVars, jobs, schedRunning, starts, stopClosed,
                   rootCancelled, wg, loopJobs, jobTasks, stopPc, stopped>>

\* runJob line 116: the deferred s.wg.Done()
JobExit(t) ==
    /\ jobTasks' = [jobTasks EXCEPT ![t].pc = "done"]
    /\ wg' = wg - 1

\* a runJob that goes on whatever the state of its context
JobCtxCheckIgnoresCtx(t) ==
    /\ t \in DOMAIN jobTasks
    /\ jobTasks[t].pc = "start"
    /\ IF ~jobs[jobTasks[t].job].hasPaths
       THEN JobExit(t)
       ELSE jobTasks' = [jobTasks EXCEPT ![t].pc = "startscan"] /\ UNCHANGED wg
    /\ UNCHANGED <<storeVars, sse, calcVars, scanVars, actVars, jobs, schedRunning, starts, stopClosed,
                   rootCancelled, loopPc, loopJobs, stopPc, stopped>>

\* runJob lines 120-129
JobCtxCheck(t) ==
    /\ t \in DOMAIN jobTasks
    /\ jobTasks[t].pc = "start"
    /\ IF rootCancelled[jobTasks[t].ctx] \/ ~jobs[jobTasks[t].job].hasPaths
       THEN JobExit(t)
       ELSE jobTasks' = [jobTasks EXCEPT ![t].pc = "startscan"] /\ UNCHANGED wg
    /\ UNCHANGED <<storeVars, sse, calcVars, scanVars, actVars, jobs, schedRunning, starts, stopClosed,
                   rootCancelled, loopPc, loopJobs, stopPc, stopped>>

\* the id CreateScanRun gives the next row
FreeRuns == {r \in RunIds : scanRuns[r].status = "none"}

\* runJob lines 141-145
JobStartScan(t) ==
    /\ t \in DOMAIN jobTasks
    /\ jobTasks[t].pc = "startscan"
    /\ IF FreeRuns = {}
       THEN JobExit(t) /\ UNCHANGED scanVars
       ELSE LET r == CHOOSE x \in FreeRuns : \A y \in FreeRuns : x <= y IN
              /\ StartScanCall(r)
              /\ jobTasks' = [jobTasks EXCEPT ![t].pc = "cron", ![t].run = r]
              /\ UNCHANGED wg
    /\ UNCHANGED <<storeVars, sse, calcVars, actVars, jobs, schedRunning, starts, stopClosed,
                   rootCancelled, loopPc, loopJobs, stopPc, stopped>>

\* schedule.Next(now): the next activation after now, or the zero time, which
\* is not after now, when the schedule has none within five years
CronNext(row) == IF row.cronFires THEN "later" ELSE "due"

\* UPDATE scheduled_jobs SET last_run_at = ?, next_run_at = ? WHERE id = ?
UpdateJobLastRun(tbl, j, lastRun, nextRun) ==
    [tbl EXCEPT ![j].lastRun = lastRun, ![j].nextRun = nextRun]

\* runJob lines 148-165
JobUpdate(t) ==
    /\ t \in DOMAIN jobTasks
    /\ jobTasks[t].pc = "cron"
    /\ IF ~jobs[jobTasks[t].job].cronOk
       THEN JobExit(t) /\ UNCHANGED jobs
       ELSE /\ jobs' = UpdateJobLastRun(jobs, jobTasks[t].job, jobTasks[t].run,
                                         CronNext(jobs[jobTasks[t].job]))
            /\ IF jobs[jobTasks[t].job].action # "scan"
               THEN jobTasks' = [jobTasks EXCEPT ![t].pc = "wait"] /\ UNCHANGED wg
               ELSE JobExit(t)
    /\ UNCHANGED <<storeVars, sse, calcVars, scanVars, actVars, schedRunning, starts, stopClosed, rootCancelled,
                   loopPc, loopJobs, stopPc, stopped>>

\* waitAndExecuteAction lines 213-218
ActionTypeOf(action) == IF action = "scan_hardlink" THEN "hardlink" ELSE "reflink"

\* a poll that acts on the groups it finds without waiting for completed
JobPollWhileRunning(t) ==
    /\ t \in DOMAIN jobTasks
    /\ jobTasks[t].pc = "wait"
    /\ LET run == jobTasks[t].run
           pending == PendingGroups(groups, run) IN
         \/ /\ rootCancelled[jobTasks[t].ctx]
            /\ JobExit(t)
            /\ UNCHANGED <<scanVars, actVars>>
         \/ /\ scanRuns[run].status \in Terminal
            /\ scanRuns[run].status # "completed" \/ pending = {}
            /\ JobExit(t)
            /\ UNCHANGED <<scanVars, actVars>>
         \/ /\ scanRuns[run].status \in {"running", "completed"}
            /\ pending # {}
            /\ \E q \in Reqs :
                 ExecuteAction(q, run, pending, ActionTypeOf(jobs[jobTasks[t].job].action),
                               FALSE, "", "scheduler", FALSE)
            /\ jobTasks' = [jobTasks EXCEPT ![t].pc = "action",
                                            ![t].action = Len(actions) + 1]
            /\ UNCHANGED wg
    /\ UNCHANGED <<storeVars, sse, calcVars, jobs, schedRunning, starts, stopClosed, rootCancelled,
                   loopPc, loopJobs, stopPc, stopped>>

\* waitAndExecuteAction lines 174-221: one round of the select that ends the
\* wait (a round that finds the run still running changes nothing)
JobPoll(t) ==
    /\ t \in DOMAIN jobTasks
    /\ jobTasks[t].pc = "wait"
    /\ LET run == jobTasks[t].run
           pending == PendingGroups(groups, run) IN
         \/ /\ rootCancelled[jobTasks[t].ctx]
            /\ JobExit(t)
            /\ UNCHANGED <<scanVars, actVars>>
         \/ /\ scanRuns[run].status \in Terminal
            /\ scanRuns[run].status # "completed" \/ pending = {}
            /\ JobExit(t)
            /\ UNCHANGED <<scanVars, actVars>>
         \/ /\ scanRuns[run].status = "completed"
            /\ pending # {}
            /\ \E q \in Reqs :
                 ExecuteAction(q, run, pending, ActionTypeOf(jobs[jobTasks[t].job].action),
                               FALSE, "", "scheduler", FALSE)
            /\ jobTasks' = [jobTasks EXCEPT ![t].pc = "action",
                                            ![t].action = Len(actions) + 1]
            /\ UNCHANGED wg
    /\ UNCHANGED <<storeVars, sse, calcVars, jobs, schedRunning, starts, stopClosed, rootCancelled,
                   loopPc, loopJobs, stopPc, stopped>>

\* waitAndExecuteAction lines 221-228: ExecuteAction has returned
JobActionDone(t) ==
    /\ t \in DOMAIN jobTasks
    /\ jobTasks[t].pc = "action"
    /\ actions[jobTasks[t].action].status # "running"
    /\ JobExit(t)
    /\ UNCHANGED <<storeVars, sse, calcVars, scanVars, actVars, jobs, schedRunning, starts, stopClosed,
                   rootCancelled, loopPc, loopJobs, stopPc, stopped>>

\* time passes: a next_run_at in the future is reached
ClockAdvance(j) ==
    /\ jobs[j].nextRun = "later"
    /\ jobs' = [jobs EXCEPT ![j].nextRun = "due"]
    /\ UNCHANGED <<storeVars, sse, calcVars, scanVars, actVars, schedRunning, starts, stopClosed, rootCancelled,
                   wg, loopPc, loopJobs, jobTasks, stopPc, stopped>>

----------------------------------------------------------------------------
(* The scanner with its readers *)

Constructed ==
    /\ scanRuns = [r \in RunIds |-> NoRow]
    /\ groups = <<>>
    /\ activeScans = {}
    /\ ctxCancelled = [r \in RunIds |-> FALSE]
    /\ cancelAt = [r \in RunIds |-> ""]
    /\ subs = [r \in RunIds |-> NilSlice]
    /\ taskPc = [r \in RunIds |-> "none"]
    /\ taskEv = [b \in BIds |-> [status |-> "", seq |-> 0]]
    /\ engineSt = [r \in RunIds |-> "none"]
    /\ childOutcome = [r \in RunIds |-> ""]
    /\ engineRet = [r \in RunIds |-> ""]
    /\ emitted = [r \in RunIds |-> 0]
    /\ progressChan = [r \in RunIds |-> <<>>]
    /\ progressClosed = [r \in RunIds |-> FALSE]
    /\ relayPc = [r \in RunIds |-> "none"]
    /\ bcast = [b \in BIds |-> IdleBcast]
    /\ chQueue = [c \in Chans |-> <<>>]
    /\ chClosed = [c \in Chans |-> FALSE]
    /\ closeCount = [c \in Chans |-> 0]
    /\ clientPc = [c \in Chans |-> "idle"]
    /\ clientRun = [c \in Chans |-> 0]
    /\ lastRecv = [c \in Chans |-> NoEvent]
    /\ crashed = ""
    /\ actions = <<>>
    /\ engineCalls = {}
    /\ reqPc = [q \in Reqs |-> "idle"]
    /\ req = [q \in Reqs |-> NoReq]
    /\ jobs = [j \in Jobs |-> NoJob]
    /\ SchedIdle
    /\ StoreIdle

\* NewScanner, scheduler.New and an empty store
Init == Constructed /\ CalcIdle

ScanStep(r) ==
    \/ EngineProgress(r) \/ EngineSpawnFail(r) \/ EngineOutputDone(r)
    \/ EngineCtxCheck(r) \/ EngineWait(r)
    \/ RelayRecv(r) \/ RelayBroadcast(r) \/ RelayExit(r)
    \/ TaskFail(r) \/ TaskStore(r) \/ TaskComplete(r) \/ TaskBroadcast(r)
    \/ TaskReturn(r) \/ CloseSubscribers(r)

Next ==
    \/ \E r \in ScanRuns : StartScan(r) \/ ScanStep(r)
    \/ \E r \in RunIds : CancelScan(r)
    \/ \E b \in BIds : BcastSend(b)
    \/ \E c \in Chans : \E r \in ScanRuns : Subscribe(c, r)
    \/ \E c \in Chans : Unsubscribe(c) \/ Receive(c)

Spec == Init /\ [][Next]_vars

\* the scan task, the relay and the engine invocation of a started scan are
\* goroutines and a child process that keep running: the Go scheduler leaves
\* no runnable goroutine waiting forever, and the engine invocation returns.
\* CancelScan, Subscribe, Unsubscribe and Receive are up to the callers.
ScanFairness ==
    /\ \A r \in ScanRuns : WF_vars(ScanStep(r))
    /\ \A b \in BIds : WF_vars(BcastSend(b))

SpecLive == Spec /\ ScanFairness

----------------------------------------------------------------------------
(* Scans that outlast the configured timeout *)

\* scanTimeout after StartScan the engine invocation of run r is still going
\* on. The scan context is context.WithCancel(context.Background()), lines
\* 102-103: it has no deadline, so nothing happens to it or to the engine.
ScanTimeoutPasses(r) ==
    /\ crashed = ""
    /\ r \in activeScans
    /\ engineSt[r] \in {"child", "drained", "wait"}
    /\ ~overdue[r]
    /\ overdue' = [overdue EXCEPT ![r] = TRUE]
    /\ UNCHANGED <<scanVars, actVars, schedVars, now, lastSweep, sse, calcVars>>

NextTimeout ==
    \/ Next
    \/ \E r \in ScanRuns : ScanTimeoutPasses(r)

SpecTimeout == Init /\ [][NextTimeout]_vars

----------------------------------------------------------------------------
(* Actions over a store that holds finished runs *)

CompletedRow == [status |-> "completed", error |-> "",
                 progress |-> [by |-> "stats", seq |-> 0], completes |-> 1,
                 completedAt |-> 1, paths |-> 1]

\* the duplicate_groups tables two finished runs can have left
FinishedStores ==
    {StoreGroups(StoreGroups(<<>>, 1, o1), 2, o2) :
        o1 \in GroupOutputs, o2 \in {o \in GroupOutputs : Len(o) <= 1}}

InitAction ==
    /\ scanRuns = [r \in RunIds |-> CompletedRow]
    /\ groups \in {t \in FinishedStores : Len(t) <= MaxGroups}
    /\ activeScans = {}
    /\ ctxCancelled = [r \in RunIds |-> FALSE]
    /\ cancelAt = [r \in RunIds |-> ""]
    /\ subs = [r \in RunIds |-> NilSlice]
    /\ taskPc = [r \in RunIds |-> "none"]
    /\ taskEv = [b \in BIds |-> [status |-> "", seq |-> 0]]
    /\ engineSt = [r \in RunIds |-> "none"]
    /\ childOutcome = [r \in RunIds |-> ""]
    /\ engineRet = [r \in RunIds |-> ""]
    /\ emitted = [r \in RunIds |-> 0]
    /\ progressChan = [r \in RunIds |-> <<>>]
    /\ progressClosed = [r \in RunIds |-> FALSE]
    /\ relayPc = [r \in RunIds |-> "none"]
    /\ bcast = [b \in BIds |-> IdleBcast]
    /\ chQueue = [c \in Chans |-> <<>>]
    /\ chClosed = [c \in Chans |-> FALSE]
    /\ closeCount = [c \in Chans |-> 0]
    /\ clientPc = [c \in Chans |-> "idle"]
    /\ clientRun = [c \in Chans |-> 0]
    /\ lastRecv = [c \in Chans |-> NoEvent]
    /\ crashed = ""
    /\ actions = <<>>
    /\ engineCalls = {}
    /\ reqPc = [q \in Reqs |-> "idle"]
    /\ req = [q \in Reqs |-> NoReq]
    /\ jobs = [j \in Jobs |-> NoJob]
    /\ SchedIdle
    /\ StoreIdle
    /\ CalcIdle

\* group ids a request can name; a shorter table leaves some of them unknown
RequestIds == 1..MaxGroups

\* the action buttons: only the remove form has a priority selector
ActionForms == {f \in ActionTypes \X Priorities : f[2] # "" => f[1] = "remove"}

NextAction ==
    \/ \E q \in Reqs, run \in RunIds, ids \in SUBSET RequestIds, form \in ActionForms,
          confirm \in BOOLEAN :
            HandleAction(q, run, ids, form[1], confirm, form[2])
    \/ \E q \in Reqs, run \in RunIds, type \in ActionTypes : ScheduledAction(q, run, type)
    \/ \E q \in Reqs : ActionEngine(q) \/ ActionFinish(q)

SpecAction == InitAction /\ [][NextAction]_vars

----------------------------------------------------------------------------
(* Actions over a store in which earlier actions have processed groups *)

\* the duplicate_groups tables of finished runs after earlier real actions:
\* any of the groups can be processed
ProcessedStores ==
    {UpdateDuplicateGroupStatus(t, ids, "processed") :
        t \in {u \in FinishedStores : Len(u) <= MaxGroups},
        ids \in SUBSET (1..MaxGroups)}

InitProcessed ==
    /\ scanRuns = [r \in RunIds |-> CompletedRow]
    /\ groups \in ProcessedStores
    /\ activeScans = {}
    /\ ctxCancelled = [r \in RunIds |-> FALSE]
    /\ cancelAt = [r \in RunIds |-> ""]
    /\ subs = [r \in RunIds |-> NilSlice]
    /\ taskPc = [r \in RunIds |-> "none"]
    /\ taskEv = [b \in BIds |-> [status |-> "", seq |-> 0]]
    /\ engineSt = [r \in RunIds |-> "none"]
    /\ childOutcome = [r \in RunIds |-> ""]
    /\ engineRet = [r \in RunIds |-> ""]
    /\ emitted = [r \in RunIds |-> 0]
    /\ progressChan = [r \in RunIds |-> <<>>]
    /\ progressClosed = [r \in RunIds |-> FALSE]
    /\ relayPc = [r \in RunIds |-> "none"]
    /\ bcast = [b \in BIds |-> IdleBcast]
    /\ chQueue = [c \in Chans |-> <<>>]
    /\ chClosed = [c \in Chans |-> FALSE]
    /\ closeCount = [c \in Chans |-> 0]
    /\ clientPc = [c \in Chans |-> "idle"]
    /\ clientRun = [c \in Chans |-> 0]
    /\ lastRecv = [c \in Chans |-> NoEvent]
    /\ crashed = ""
    /\ actions = <<>>
    /\ engineCalls = {}
    /\ reqPc = [q \in Reqs |-> "idle"]
    /\ req = [q \in Reqs |-> NoReq]
    /\ jobs = [j \in Jobs |-> NoJob]
    /\ SchedIdle
    /\ StoreIdle
    /\ CalcIdle

SpecProcessed == InitProcessed /\ [][NextAction]_vars

----------------------------------------------------------------------------
(* The scheduler over an empty store, with an engine that reports no progress *)

InitSched ==
    /\ scanRuns = [r \in RunIds |-> NoRow]
    /\ groups = <<>>
    /\ activeScans = {}
    /\ ctxCancelled = [r \in RunIds |-> FALSE]
    /\ cancelAt = [r \in RunIds |-> ""]
    /\ subs = [r \in RunIds |-> NilSlice]
    /\ taskPc = [r \in RunIds |-> "none"]
    /\ taskEv = [b \in BIds |-> [status |-> "", seq |-> 0]]
    /\ engineSt = [r \in RunIds |-> "none"]
    /\ childOutcome = [r \in RunIds |-> ""]
    /\ engineRet = [r \in RunIds |-> ""]
    /\ emitted = [r \in RunIds |-> 0]
    /\ progressChan = [r \in RunIds |-> <<>>]
    /\ progressClosed = [r \in RunIds |-> FALSE]
    /\ relayPc = [r \in RunIds |-> "none"]
    /\ bcast = [b \in BIds |-> IdleBcast]
    /\ chQueue = [c \in Chans |-> <<>>]
    /\ chClosed = [c \in Chans |-> FALSE]
    /\ closeCount = [c \in Chans |-> 0]
    /\ clientPc = [c \in Chans |-> "idle"]
    /\ clientRun = [c \in Chans |-> 0]
    /\ lastRecv = [c \in Chans |-> NoEvent]
    /\ crashed = ""
    /\ actions = <<>>
    /\ engineCalls = {}
    /\ reqPc = [q \in Reqs |-> "idle"]
    /\ req = [q \in Reqs |-> NoReq]
    /\ jobs \in [Jobs -> JobRows]
    /\ SchedIdle
    /\ StoreIdle
    /\ CalcIdle

QuietScanStep(r) ==
    \/ EngineSpawnFail(r) \/ EngineOutputDone(r) \/ EngineCtxCheck(r) \/ EngineWait(r)
    \/ RelayExit(r)
    \/ TaskFail(r) \/ TaskStore(r) \/ TaskComplete(r) \/ TaskBroadcast(r)
    \/ TaskReturn(r) \/ CloseSubscribers(r)

NextSched ==
    \/ SchedStart \/ SchedStop \/ StopWait
    \/ \E e \in Epochs : LoopGetJobs(e) \/ LoopSpawn(e) \/ LoopSelect(e)
    \/ \E t \in 1..MaxTasks :
          \/ JobCtxCheck(t) \/ JobStartScan(t) \/ JobUpdate(t)
          \/ JobPoll(t) \/ JobActionDone(t)
    \/ \E j \in Jobs : ClockAdvance(j)
    \/ \E r \in RunIds : QuietScanStep(r)
    \/ \E q \in Reqs : ActionEngine(q) \/ ActionFinish(q)

SpecSched == InitSched /\ [][NextSched]_vars

----------------------------------------------------------------------------
(* ScanProgressSSE: the handler behind a subscriber queue, sse.go 41-84 *)

\* lines 41-43: Subscribe, with Unsubscribe deferred
SseSubscribe(c, r) ==
    /\ SubscribeCall(c, r, "initial")
    /\ sse' = [sse EXCEPT ![c] = [late |-> scanRuns[r].status \in Terminal,
                                  sent |-> <<>>, complete |-> ""]]
    /\ UNCHANGED <<actVars, schedVars, storeVars, calcVars>>

\* a handler that goes on to its loop whatever the status it has read
SseAlwaysListens(status) == "subscribed"

\* lines 56-61: "if run.Status != running { ...; return }"
SseAfterSnapshot(status) == IF status # "running" THEN "finished" ELSE "subscribed"

\* lines 57-59: the complete event after the snapshot of a run that is not
\* running carries run.Status; "" is no complete event
CompleteAfterSnapshot(status) == IF status # "running" THEN status ELSE ""

\* lines 45-62: GetScanRun, the snapshot of the row, and the return for a
\* run that is not running; a run that is not found goes to the loop
SseInitial(c) ==
    /\ crashed = ""
    /\ clientPc[c] = "initial"
    /\ LET row == scanRuns[clientRun[c]] IN
         IF row.status = "none"
         THEN /\ clientPc' = [clientPc EXCEPT ![c] = "subscribed"]
              /\ UNCHANGED sse
         ELSE /\ sse' = [sse EXCEPT ![c].sent = Append(@, row.status),
                                    ![c].complete = CompleteAfterSnapshot(row.status)]
              /\ clientPc' = [clientPc EXCEPT ![c] = SseAfterSnapshot(row.status)]
    /\ UNCHANGED <<scanRuns, groups, activeScans, ctxCancelled, cancelAt, subs,
                   taskPc, taskEv, engineVars, progressChan, progressClosed,
                   relayPc, bcast, chanVars, clientRun, lastRecv, crashed,
                   actVars, schedVars, storeVars, calcVars>>

\* the loop of lines 65-83 reads the queue (Receive) until the handler
\* returns, and every return runs the deferred Unsubscribe; the scans here
\* report no progress
NextSse ==
    \/ \E r \in ScanRuns : StartScan(r) \/ QuietScanStep(r)
    \/ \E r \in RunIds : CancelScan(r)
    \/ \E b \in BIds : BcastSend(b)
    \/ \E c \in Chans : \E r \in ScanRuns : SseSubscribe(c, r)
    \/ \E c \in Chans : SseInitial(c) \/ Unsubscribe(c) \/ Receive(c)

SpecSse == Init /\ [][NextSse]_vars

\* line 71: the complete event sent when the queue is found closed
CompleteOnClose == "completed"

\* lines 64-83: one round of the loop. A queue that holds an event yields it
\* (also when it is closed): the event is sent on, and one that is not
\* running is followed by a complete event with its status and the return.
\* A closed, empty queue yields ok = false: the complete event, the return.
SseListen(c) ==
    /\ crashed = ""
    /\ clientPc[c] = "subscribed"
    /\ IF chQueue[c] # <<>>
       THEN LET update == Head(chQueue[c]) IN
              /\ chQueue' = [chQueue EXCEPT ![c] = Tail(@)]
              /\ lastRecv' = [lastRecv EXCEPT ![c] = update]
              /\ sse' = [sse EXCEPT ![c].sent = Append(@, update.status),
                                    ![c].complete = CompleteAfterSnapshot(update.status)]
              /\ clientPc' = [clientPc EXCEPT ![c] = SseAfterSnapshot(update.status)]
       ELSE /\ chClosed[c]
            /\ sse' = [sse EXCEPT ![c].complete = CompleteOnClose]
            /\ clientPc' = [clientPc EXCEPT ![c] = "finished"]
            /\ UNCHANGED <<chQueue, lastRecv>>
    /\ UNCHANGED <<scanRuns, groups, activeScans, ctxCancelled, cancelAt, subs,
                   taskPc, taskEv, engineVars, progressChan, progressClosed,
                   relayPc, bcast, chClosed, closeCount, clientRun, crashed,
                   actVars, schedVars, storeVars, calcVars>>

\* the handler with its loop, over scans that report progress; the request
\* context ending (line 67) is the return that runs the deferred Unsubscribe
NextSseLoop ==
    \/ \E r \in ScanRuns : StartScan(r) \/ ScanStep(r)
    \/ \E r \in RunIds : CancelScan(r)
    \/ \E b \in BIds : BcastSend(b)
    \/ \E c \in Chans : \E r \in ScanRuns : SseSubscribe(c, r)
    \/ \E c \in Chans : SseInitial(c) \/ SseListen(c) \/ Unsubscribe(c)

SpecSseLoop == Init /\ [][NextSseLoop]_vars

----------------------------------------------------------------------------
(* Subscribe and Unsubscribe on a subscriber list of any shape *)

CalcChans == 1..MaxSubscribers

\* the queues of a list
Elems(s) == {s.arr[i] : i \in 1..s.len}

\* the slices subscribers[runID] can be after n Subscribe and Unsubscribe
\* calls on a run without subscribers
RECURSIVE SlicesAfter(_)
SlicesAfter(n) ==
    IF n = 0 THEN {NilSlice}
    ELSE LET S == SlicesAfter(n - 1) IN
           S \cup UNION {{SliceAppend(s, c) : c \in CalcChans \ Elems(s)} : s \in S}
             \cup UNION {{UnsubscribeSlice(s, c) : c \in Elems(s)} : s \in S}

\* a list and the queue the next Subscribe makes, which is a new one
InitSubs ==
    /\ Constructed
    /\ \E s \in SlicesAfter(MaxListOps) : \E c \in CalcChans \ Elems(s) :
          subCalc = [NoSubCalc EXCEPT !.pc = "start", !.before = s, !.ch = c]
    /\ pathCalc = NoPathCalc

\* Subscribe lines 38-45 on the list
CalcSubscribe ==
    /\ subCalc.pc = "start"
    /\ subCalc' = [subCalc EXCEPT !.pc = "subscribed",
                                  !.mid = SliceAppend(subCalc.before, subCalc.ch)]
    /\ UNCHANGED <<scanVars, actVars, schedVars, storeVars, sse, pathCalc>>

\* Unsubscribe lines 48-65 on the list, for the queue Subscribe returned
CalcUnsubscribe ==
    /\ subCalc.pc = "subscribed"
    /\ subCalc' = [subCalc EXCEPT !.pc = "done",
                                  !.after = UnsubscribeSlice(subCalc.mid, subCalc.ch),
                                  !.closed = UnsubscribeCloses(subCalc.mid, subCalc.ch)]
    /\ UNCHANGED <<scanVars, actVars, schedVars, storeVars, sse, pathCalc>>

NextSubs == CalcSubscribe \/ CalcUnsubscribe

SpecSubs == InitSubs /\ [][NextSubs]_vars

----------------------------------------------------------------------------
(* Config.IsPathAllowed, config.go 118-134. A string is the sequence of its *)
(* characters.                                                              *)

PathChars == {"/", ".", "u"}

Strings(n) == UNION {[1..m -> PathChars] : m \in 0..n}

\* strings.HasPrefix
HasPrefix(str, prefix) ==
    Len(prefix) <= Len(str) /\ SubSeq(str, 1, Len(prefix)) = prefix

\* the elements of a path between its separators, empty ones included
RECURSIVE PathElems(_, _)
PathElems(str, cur) ==
    IF str = <<>> THEN <<cur>>
    ELSE IF Head(str) = "/" THEN <<cur>> \o PathElems(Tail(str), <<>>)
    ELSE PathElems(Tail(str), Append(cur, Head(str)))

\* filepath.Clean over the elements: empty and "." elements go, ".." takes
\* the element before it with it, is dropped at the root and kept at the
\* start of a path that is not rooted
RECURSIVE CleanElems(_, _, _)
CleanElems(elems, out, rooted) ==
    IF elems = <<>> THEN out
    ELSE LET e == Head(elems) IN
         CleanElems(Tail(elems),
                    IF e = <<>> \/ e = <<".">> THEN out
                    ELSE IF e = <<".", ".">>
                         THEN IF out # <<>> /\ out[Len(out)] # <<".", ".">>
                              THEN SubSeq(out, 1, Len(out) - 1)
                              ELSE IF rooted THEN out ELSE Append(out, e)
                    ELSE Append(out, e),
                    rooted)

RECURSIVE JoinElems(_)
JoinElems(elems) ==
    IF elems = <<>> THEN <<>>
    ELSE IF Len(elems) = 1 THEN Head(elems)
    ELSE Head(elems) \o <<"/">> \o JoinElems(Tail(elems))

Rooted(str) == str # <<>> /\ Head(str) = "/"

\* the elements of the cleaned path
Elements(str) == CleanElems(PathElems(str, <<>>), <<>>, Rooted(str))

\* filepath.Clean (Unix): "." for an empty result, "/" for the root
Clean(str) ==
    IF Rooted(str) THEN <<"/">> \o JoinElems(Elements(str))
    ELSE IF Elements(str) = <<>> THEN <<".">>
    ELSE JoinElems(Elements(str))

\* IsPathAllowed lines 118-134
IsPathAllowed(allowedPaths, path) ==
    IF Len(allowedPaths) = 0 THEN TRUE
    ELSE \E i \in DOMAIN allowedPaths :
            LET allowed == Clean(allowedPaths[i]) IN
              \/ Clean(path) = allowed
              \/ HasPrefix(Clean(path), allowed \o <<"/">>)

AllowLists == UNION {[1..n -> Strings(MaxAllowedLen)] : n \in 0..MaxAllowed}

InitPaths ==
    /\ Constructed
    /\ subCalc = NoSubCalc
    /\ \E al \in AllowLists, path \in Strings(MaxPathLen) :
          pathCalc = [NoPathCalc EXCEPT !.pc = "call", !.allowed = al, !.path = path]

CalcIsPathAllowed ==
    /\ pathCalc.pc = "call"
    /\ pathCalc' = [pathCalc EXCEPT !.pc = "done",
                                    !.result = IsPathAllowed(pathCalc.allowed,
                                                             pathCalc.path)]
    /\ UNCHANGED <<scanVars, actVars, schedVars, storeVars, sse, subCalc>>

NextPaths == CalcIsPathAllowed

SpecPaths == InitPaths /\ [][NextPaths]_vars

----------------------------------------------------------------------------
(* The store on its own: any caller, the clock and the retention sweep *)

\* every variable of the scanner but the two tables
busVars == <<activeScans, ctxCancelled, cancelAt, subs, taskPc, taskEv, engineVars,
             progressChan, progressClosed, relayPc, bcast, chanVars, clientVars,
             crashed>>

\* "completed_at < ?": a comparison with NULL is not true
Earlier(t, cutoff) == t # NullTime /\ t < cutoff

\* a sweep that takes every finished run, whatever its age
ExpiredWhateverAge(row, cutoff) == row.status \notin {"none", "running"}

\* WHERE completed_at < ? AND status != 'running'
Expired(row, cutoff) == Earlier(row.completedAt, cutoff) /\ row.status # "running"

\* an actions row that has been deleted (ids are not handed out again here)
DeletedAction == [run |-> 0, type |-> "", dryRun |-> FALSE, status |-> "deleted",
                  groupsProcessed |-> 0, via |-> "", confirm |-> FALSE,
                  completedAt |-> NullTime, error |-> <<>>, ret |-> ""]

\* CleanupOldData lines 876-894: scan_runs and actions; the schema declares no
\* foreign key, so duplicate_groups is left as it is
CleanupOldData(retentionDays) ==
    LET cutoff == now - retentionDays IN
      /\ scanRuns' = [r \in RunIds |->
                        IF Expired(scanRuns[r], cutoff) THEN NoRow ELSE scanRuns[r]]
      /\ actions' = [i \in DOMAIN actions |->
                        IF Earlier(actions[i].completedAt, cutoff)
                        THEN DeletedAction ELSE actions[i]]
      /\ lastSweep' = [days |-> retentionDays, flip |-> ~lastSweep.flip]
      /\ UNCHANGED <<groups, busVars, engineCalls, reqPc, req, schedVars, now, overdue, sse, calcVars>>

\* the rowid SQLite gives the next scan_runs row: one more than the largest
NextId(tbl) ==
    IF \A r \in RunIds : tbl[r].status = "none" THEN 1
    ELSE 1 + CHOOSE r \in RunIds :
                 tbl[r].status # "none" /\ \A q \in RunIds : tbl[q].status # "none" => q <= r

\* db.CreateScanRun
StoreCreate(r, paths) ==
    /\ r = NextId(scanRuns)
    /\ scanRuns' = CreateScanRun(scanRuns, r, paths)
    /\ UNCHANGED <<groups, busVars, actVars, schedVars, storeVars, sse, calcVars>>

\* the message that goes with a terminal status
StoreMessage(status) ==
    CASE status = "completed" -> ""
      [] status = "cancelled" -> "Scan cancelled"
      [] OTHER -> "exiterr"

\* db.CompleteScanRun, called by any caller on an existing run
StoreComplete(r, status) ==
    /\ scanRuns[r].status # "none"
    /\ scanRuns[r].completes < MaxCompletes
    /\ scanRuns' = CompleteScanRun(scanRuns, r, status, StoreMessage(status))
    /\ UNCHANGED <<groups, busVars, actVars, schedVars, storeVars, sse, calcVars>>

\* db.CreateDuplicateGroup for a run that exists
StoreGroup(r) ==
    /\ scanRuns[r].status # "none"
    /\ Len(groups) < MaxGroups
    /\ groups' = StoreGroups(groups, r, <<2>>)
    /\ UNCHANGED <<scanRuns, busVars, actVars, schedVars, storeVars, sse, calcVars>>

\* a day passes
Tick ==
    /\ now < MaxTime
    /\ now' = now + 1
    /\ UNCHANGED <<scanVars, actVars, schedVars, lastSweep, overdue, sse, calcVars>>

NextStore ==
    \/ \E r \in RunIds, paths \in PathCounts : StoreCreate(r, paths)
    \/ \E r \in RunIds : StoreGroup(r)
    \/ \E r \in RunIds, status \in Terminal : StoreComplete(r, status)
    \/ \E days \in 0..MaxRetention : CleanupOldData(days)
    \/ Tick

SpecStore == Init /\ [][NextStore]_vars

----------------------------------------------------------------------------
(* The scheduler loop and the start of its job tasks, while no scan finishes *)
(* and Stop is not called                                                    *)

NextTick ==
    \/ SchedStart
    \/ \E e \in Epochs : LoopGetJobs(e) \/ LoopSpawn(e) \/ LoopSelect(e)
    \/ \E t \in 1..MaxTasks : JobCtxCheck(t) \/ JobStartScan(t) \/ JobUpdate(t)
    \/ \E j \in Jobs : ClockAdvance(j)

SpecTick == InitSched /\ [][NextTick]_vars

----------------------------------------------------------------------------
(* The same loop over several ticks: a job comes due again while the scan of *)
(* its earlier task is still going on                                        *)

\* the job tasks followed over the ticks
MaxOverlap == 2

NextOverlap ==
    \/ SchedStart
    \/ \E e \in Epochs : LoopGetJobsUpTo(e, MaxOverlap) \/ LoopSpawn(e) \/ LoopSelect(e)
    \/ \E t \in 1..MaxOverlap : JobCtxCheck(t) \/ JobStartScan(t) \/ JobUpdate(t)
    \/ \E j \in Jobs : ClockAdvance(j)

SpecOverlap == InitSched /\ [][NextOverlap]_vars

----------------------------------------------------------------------------
(* Scan lifecycle *)

AfterTerminalWrite == {"bcast", "return", "closesubs", "done"}

\* C1: for every run, under any interleaving of the scan task, the end of the
\* engine invocation and CancelScan calls, CompleteScanRun takes effect exactly
\* once: never twice, the status is terminal exactly when it has, and the scan
\* task has done it once it is past its branch.
C1_TerminalWrittenOnce ==
    \A r \in RunIds :
        /\ scanRuns[r].completes <= 1
        /\ (scanRuns[r].status \in Terminal) <=> (scanRuns[r].completes = 1)
        /\ taskPc[r] \in AfterTerminalWrite => scanRuns[r].completes = 1

\* a run that finished while a CancelScan arrived after Group had returned
C1_Witness ==
    \E r \in RunIds :
        /\ taskPc[r] = "done"
        /\ cancelAt[r] \in {"group", "complete"}
        /\ scanRuns[r].completes = 1

\* C2: a run's status only goes from running to completed, failed or
\* cancelled, and no step changes a terminal status.
C2_TerminalIsFinal ==
    [][\A r \in RunIds :
          /\ scanRuns[r].status \in Terminal =>
                scanRuns'[r].status = scanRuns[r].status
          /\ scanRuns[r].status = "running" =>
                scanRuns'[r].status \in {"running"} \cup Terminal]_vars

\* a completed run whose counters the relay wrote after the final counters
C2_Witness ==
    \E r \in RunIds :
        /\ scanRuns[r].status = "completed"
        /\ scanRuns[r].progress.by = "relay"
        /\ relayPc[r] = "exit"

----------------------------------------------------------------------------
(* Subscriber bus *)

\* C9: broadcast never waits on a subscriber: each send either appends the
\* event to the queue it targets, when that has room, or leaves it as it is,
\* touches no other queue, and the broadcasting goroutine proceeds (it does
\* not die in the send).
C9_BroadcastNeverWaits ==
    [][\A b \in BIds : Sending(b) =>
          /\ crashed' # "send on closed channel"
          /\ bcast'[b].idx # bcast[b].idx =>
                LET ch == BcastTarget(b) IN
                  /\ chQueue'[ch] = IF HasRoom(chQueue[ch])
                                    THEN Append(chQueue[ch], bcast[b].ev)
                                    ELSE chQueue[ch]
                  /\ \A d \in Chans \ {ch} : chQueue'[d] = chQueue[d]]_vars

\* C10: no subscriber queue is closed more than once.
C10_CloseOnce == \A c \in Chans : closeCount[c] <= 1

\* a queue closed once although both Unsubscribe and the scan task's
\* closeSubscribers have run for it
C10_Witness ==
    \E c \in Chans :
        /\ closeCount[c] = 1
        /\ clientPc[c] = "gone"
        /\ taskPc[clientRun[c]] = "done"

----------------------------------------------------------------------------
(* Actions *)

Range(f) == {f[i] : i \in DOMAIN f}

\* the request q takes a step of an ExecuteAction call made with dryRun = TRUE
DryRunStep(q) ==
    \/ reqPc[q] = "idle" /\ reqPc'[q] = "engine" /\ req'[q].dryRun
    \/ reqPc[q] # "idle" /\ reqPc'[q] # reqPc[q] /\ req[q].dryRun

\* C3: no step of an ExecuteAction call with dryRun = TRUE changes the status
\* of any duplicate group (or adds or removes one).
C3_DryRunKeepsGroups ==
    [][(\E q \in Reqs : DryRunStep(q)) => groups' = groups]_vars

\* a dry run over existing groups has completed and they are still pending
C3_Witness ==
    \E c \in engineCalls :
        /\ c.input # {}
        /\ actions[c.action].dryRun
        /\ actions[c.action].status = "completed"
        /\ \A g \in c.input : groups[g].status = "pending"

Previewed(tbl, run, type) ==
    \E j \in DOMAIN tbl :
        /\ tbl[j].via = "endpoint" /\ tbl[j].dryRun /\ tbl[j].status = "completed"
        /\ tbl[j].run = run /\ tbl[j].type = type

----------------------------------------------------------------------------
(* Scheduler shutdown *)

\* C8: once Stop has returned (and Start has not been called again) no job
\* task is executing, whether it was spawned before Stop was called or by a
\* checkJobs pass that was in progress then.
C8_StopWaitsForJobs ==
    stopped => \A t \in DOMAIN jobTasks : jobTasks[t].pc = "done"


----------------------------------------------------------------------------
(* Scan task exit *)

\* C11: whichever branch the scan task took (completed, failed, cancelled),
\* when it exits the run is no longer in activeScans, every queue that was in
\* subscribers[runID] at that moment is closed, and the run has no entry in the
\* subscriber map; the task exits only after its terminal write, and a run
\* whose task has exited is never in activeScans.
C11_ExitCleansUp ==
    /\ [][\A r \in RunIds : taskPc[r] # "done" /\ taskPc'[r] = "done" =>
              /\ scanRuns[r].status \in Terminal
              /\ r \notin activeScans'
              /\ \A c \in Range(SliceList(subs[r])) : chClosed'[c]
              /\ subs'[r] = NilSlice]_vars
    /\ [](\A r \in RunIds : taskPc[r] = "done" => r \notin activeScans)

\* a failed scan has exited and closed the queue of a reader that was still
\* subscribed
C11_Witness ==
    \E r \in RunIds : \E c \in Chans :
        /\ taskPc[r] = "done"
        /\ scanRuns[r].status = "failed"
        /\ clientPc[c] = "subscribed" /\ clientRun[c] = r
        /\ chClosed[c]
        /\ subs[r] = NilSlice


----------------------------------------------------------------------------
(* Order of delivery *)

\* C12: what one reader takes from its queue is in the order of production:
\* a status=running event has a higher sequence number than the running event
\* taken before it, and no status=running event is taken after the
\* terminal-status event.
C12_EventsInOrder ==
    [][\A c \in Chans :
          lastRecv'[c] # lastRecv[c] /\ lastRecv'[c].status = "running" =>
              /\ lastRecv[c].status \notin Terminal
              /\ lastRecv'[c].seq > lastRecv[c].seq]_vars


----------------------------------------------------------------------------
(* Group status *)

\* C13: no step takes a duplicate group from processed back to pending: a
\* group that is processed stays in the table and stays processed, whatever
\* action (dry run or real, succeeding or failing, from the endpoint or from a
\* scheduled job) runs over it.
C13_ProcessedStays ==
    [][\A g \in DOMAIN groups :
          groups[g].status = "processed" =>
              g \in DOMAIN groups' /\ groups'[g].status = "processed"]_vars

\* a dry run, or a real action whose engine failed, has finished over a group
\* that was processed before it, and the group is still processed
C13_Witness ==
    \E c \in engineCalls : \E g \in c.input :
        /\ actions[c.action].dryRun \/ actions[c.action].status = "failed"
        /\ actions[c.action].status # "running"
        /\ groups[g].status = "processed"


----------------------------------------------------------------------------
(* Scheduler: due jobs *)

\* how often job j is in a list of jobs
Occurrences(list, j) == Cardinality({i \in DOMAIN list : list[i] = j})

\* C14: the jobs a checkJobs pass spawns a task for are, each exactly once,
\* the jobs that are enabled with a next_run_at that is not null and not
\* after now at the time of the pass: a task is created only by the pass, for
\* the next job of that list, and the pass ends when the list is used up. A
\* disabled job, a job due later and a job without next_run_at are not in it.
C14_SpawnsExactlyDue ==
    /\ [][\A e \in Epochs : loopPc[e] = "check" /\ loopPc'[e] # "check" =>
              \A j \in Jobs :
                  Occurrences(loopJobs'[e], j) =
                      IF jobs[j].enabled /\ jobs[j].nextRun = "due" THEN 1 ELSE 0]_vars
    /\ [][jobTasks' # jobTasks /\ Len(jobTasks') # Len(jobTasks) =>
              \E e \in Epochs :
                  /\ loopPc[e] = "spawn" /\ loopJobs[e] # <<>>
                  /\ jobTasks' = Append(jobTasks, jobTasks'[Len(jobTasks')])
                  /\ jobTasks'[Len(jobTasks')].job = Head(loopJobs[e])
                  /\ loopJobs'[e] = Tail(loopJobs[e])]_vars
    /\ [](\A e \in Epochs : (loopPc[e] = "spawn") <=> (loopJobs[e] # <<>>))

\* a pass has ended after spawning one task for the due job; the task has
\* run and moved the job's next_run_at into the future
C14_Witness ==
    \E e \in Epochs : \E t \in DOMAIN jobTasks :
        /\ loopPc[e] = "select"
        /\ jobTasks[t].pc = "done"
        /\ jobs[jobTasks[t].job].nextRun = "later"
        /\ Len(jobTasks) = 1


----------------------------------------------------------------------------
(* Scheduler: post-scan action *)

\* C15: an action of the scheduler is started only by the job task that
\* launched the run, for a job whose action is scan_hardlink or scan_reflink,
\* when the store shows that run completed (not running, failed or
\* cancelled); it is a hardlink or reflink accordingly, is not a dry run, and
\* names exactly the groups of that run that are pending at that step. The
\* engine is invoked for it without --dry-run.
C15_PostScanAction ==
    /\ [][\A i \in DOMAIN actions' \ DOMAIN actions :
              actions'[i].via = "scheduler" =>
                  \E t \in DOMAIN jobTasks : \E q \in Reqs :
                      LET run == jobTasks[t].run
                          kind == jobs[jobTasks[t].job].action IN
                        /\ jobTasks[t].pc = "wait" /\ jobTasks'[t].pc = "action"
                        /\ jobTasks'[t].action = i
                        /\ scanRuns[run].status = "completed"
                        /\ actions'[i].run = run
                        /\ ~actions'[i].dryRun
                        /\ kind # "scan"
                        /\ actions'[i].type =
                              (IF kind = "scan_hardlink" THEN "hardlink" ELSE "reflink")
                        /\ req'[q].action = i
                        /\ req'[q].ids =
                              {g \in DOMAIN groups :
                                  groups[g].run = run /\ groups[g].status = "pending"}]_vars
    /\ [](\A c \in engineCalls :
              actions[c.action].via = "scheduler" => "--dry-run" \notin Range(c.args))

\* the post-scan action of a job has completed and processed a group of the
\* run the job launched
C15_Witness ==
    \E t \in DOMAIN jobTasks : \E g \in DOMAIN groups :
        /\ jobTasks[t].pc = "done" /\ jobTasks[t].action \in DOMAIN actions
        /\ actions[jobTasks[t].action].via = "scheduler"
        /\ actions[jobTasks[t].action].status = "completed"
        /\ groups[g].run = jobTasks[t].run
        /\ groups[g].status = "processed"


----------------------------------------------------------------------------
(* Scheduler: cron expression *)

\* C16: a job task whose job has a cron expression that does not parse starts
\* no scan run and no action, and the job's next_run_at stays as it was when
\* the pass found the job due.
C16_BadCronSkipsJob ==
    \A t \in DOMAIN jobTasks :
        ~jobs[jobTasks[t].job].cronOk =>
            /\ jobTasks[t].run = 0
            /\ jobTasks[t].action = 0
            /\ jobs[jobTasks[t].job].nextRun = "due"


\* C17: when a job task has launched a run and the job's cron expression
\* parses, the row it writes has last_run_at at the launch of that run and a
\* next_run_at that is later than now.
C17_NextRunAfterLaunch ==
    [][\A t \in DOMAIN jobTasks :
          LET j == jobTasks[t].job IN
            jobTasks[t].pc = "cron" /\ jobTasks'[t].pc # "cron" /\ jobs[j].cronOk =>
                /\ jobs'[j].lastRun = jobTasks[t].run
                /\ jobs'[j].nextRun = "later"]_vars


----------------------------------------------------------------------------
(* Retention *)

\* the run r is in the store before the step and not after it
Deleted(r) == scanRuns[r].status # "none" /\ scanRuns'[r].status = "none"

\* C18: a retention sweep with retentionDays deletes a run exactly when the
\* run is not running and its completed_at is earlier than now - retentionDays:
\* a running run is never deleted, a run completed within the window stays
\* as it is, and no other step deletes a run.
C18_SweepKeepsRunningAndRecent ==
    /\ [][lastSweep' # lastSweep =>
              \A r \in RunIds :
                  /\ Deleted(r) <=>
                        /\ scanRuns[r].status \in Terminal
                        /\ scanRuns[r].completedAt # NullTime
                        /\ scanRuns[r].completedAt < now - lastSweep'.days
                  /\ ~Deleted(r) => scanRuns'[r] = scanRuns[r]]_vars
    /\ [][lastSweep' = lastSweep => \A r \in RunIds : ~Deleted(r)]_vars

\* a sweep has deleted run 1 and kept run 2, which was completed exactly at
\* the cutoff
C18_Witness ==
    /\ lastSweep.flip
    /\ scanRuns[1].status = "none"
    /\ scanRuns[2].status \in Terminal
    /\ scanRuns[2].completedAt = now - lastSweep.days
    /\ now = MaxTime


\* C19: no duplicate group outlives its run: every group in the store has a
\* scan_run_id of a run that is in the store, so after a sweep has deleted a
\* run none of that run's groups remains.
C19_DeleteCascades ==
    \A g \in DOMAIN groups : scanRuns[groups[g].run].status # "none"

----------------------------------------------------------------------------
(* CompleteScanRun applied again *)

\* C20: once CompleteScanRun has been applied to a run, no later call on the
\* run changes the row: as long as the run is in the store its status,
\* completed_at and error_message stay as the first call set them.
C20_SecondCompleteIsNoOp ==
    [][\A r \in RunIds :
          scanRuns[r].completes >= 1 /\ scanRuns'[r].status # "none" =>
              /\ scanRuns'[r].status = scanRuns[r].status
              /\ scanRuns'[r].completedAt = scanRuns[r].completedAt
              /\ scanRuns'[r].error = scanRuns[r].error]_vars

----------------------------------------------------------------------------
(* CreateScanRun: paths *)

\* C21: every scan run in the store has a paths list that is not empty,
\* because CreateScanRun fails and inserts no row for an empty list.
C21_StoredPathsNonEmpty ==
    \A r \in RunIds : scanRuns[r].status # "none" => scanRuns[r].paths > 0

----------------------------------------------------------------------------
(* Scan timeout *)

\* C22: the scan context carries scanTimeout as its deadline: once the engine
\* invocation of a run has gone on for longer than scanTimeout the run's
\* context is cancelled, and the terminal status the run gets is cancelled.
C22_TimeoutCancelsScan ==
    \A r \in RunIds :
        overdue[r] =>
            /\ ctxCancelled[r]
            /\ scanRuns[r].status \in Terminal => scanRuns[r].status = "cancelled"

----------------------------------------------------------------------------
(* Subscribing to a finished run *)

\* C23: a handler that subscribes to a run which is already in a terminal
\* state never waits on its queue: it sends exactly one snapshot, which has
\* the status of the run's row, and when it has returned its queue is closed.
C23_LateSubscriberSnapshot ==
    \A c \in Chans :
        sse[c].late =>
            /\ clientPc[c] # "subscribed"
            /\ lastRecv[c] = NoEvent
            /\ clientPc[c] \in {"finished", "gone"} =>
                   sse[c].sent = <<scanRuns[clientRun[c]].status>>
            /\ clientPc[c] = "gone" => chClosed[c]

\* a handler that subscribed to a finished run has sent its snapshot and
\* returned, and the scan task of the run has ended
C23_Witness ==
    \E c \in Chans :
        /\ sse[c].late
        /\ clientPc[c] = "gone"
        /\ taskPc[clientRun[c]] = "done"
        /\ closeCount[c] = 1
        /\ Len(sse[c].sent) = 1

----------------------------------------------------------------------------
(* Scheduler: one loop *)

\* the run goroutines that are in a checkJobs pass
Evaluating == {e \in Epochs : loopPc[e] \in {"check", "spawn"}}

\* C24: at any time at most one scheduler loop is evaluating jobs, whatever
\* Start and Stop calls have been made.
C24_OneLoop == Cardinality(Evaluating) <= 1

----------------------------------------------------------------------------
(* Failed engine invocation of an action *)

\* C25: when the engine invocation of an action has failed, ExecuteAction
\* ends with the action row at status failed and an error message made of the
\* engine error and the captured output, returns the engine error, and
\* changes no duplicate group, whether the action is a dry run or not.
C25_FailedActionKeepsGroups ==
    [][\A q \in Reqs :
          reqPc[q] = "finish" /\ reqPc'[q] = "idle" /\ req[q].err =>
              LET a == req[q].action IN
                /\ actions'[a].status = "failed"
                /\ actions'[a].error = <<EngineError, "\n", req[q].output>>
                /\ actions'[a].ret = EngineError
                /\ actions'[a].groupsProcessed = Cardinality(req[q].ids)
                /\ groups' = groups]_vars

\* an action that was not a dry run has failed after the engine had written
\* output, and a group of its run is still pending
C25_Witness ==
    \E a \in DOMAIN actions :
        /\ actions[a].status = "failed"
        /\ ~actions[a].dryRun
        /\ actions[a].error = <<EngineError, "\n", EngineOutput>>
        /\ \E g \in DOMAIN groups :
              groups[g].run = actions[a].run /\ groups[g].status = "pending"

----------------------------------------------------------------------------
(* Subscribe, then Unsubscribe *)

\* C26: Subscribe followed by Unsubscribe of the queue it returned leaves the
\* subscriber list as it was before the Subscribe: the same queues in the same
\* order, none of them closed, no list at all where there was none; the
\* queue itself is closed, and it was in the list in between.
C26_SubscribeUnsubscribe ==
    /\ subCalc.pc \in {"subscribed", "done"} =>
           SliceList(subCalc.mid) = Append(SliceList(subCalc.before), subCalc.ch)
    /\ subCalc.pc = "done" =>
           /\ SliceList(subCalc.after) = SliceList(subCalc.before)
           /\ subCalc.before = NilSlice => subCalc.after = NilSlice
           /\ subCalc.closed = {subCalc.ch}

\* the pair has been applied to a list of two queues whose backing array
\* was full
C26_Witness ==
    /\ subCalc.pc = "done"
    /\ subCalc.before.len = 2
    /\ Grows(subCalc.before)

----------------------------------------------------------------------------
(* The path allowlist *)

\* the cleaned path p is the cleaned directory a or lies underneath it,
\* element by element
Within(p, a) ==
    /\ Len(Elements(a)) <= Len(Elements(p))
    /\ SubSeq(Elements(p), 1, Len(Elements(a))) = Elements(a)

\* C27: with an empty allowlist IsPathAllowed accepts every path; with an
\* allowlist of absolute paths it accepts an absolute path exactly when the
\* cleaned path is an allowed path or lies underneath one, element by
\* element.
C27_AllowedIffWithin ==
    pathCalc.pc = "done" =>
        /\ pathCalc.allowed = <<>> => pathCalc.result
        /\ ( /\ pathCalc.allowed # <<>>
             /\ Rooted(pathCalc.path)
             /\ \A i \in DOMAIN pathCalc.allowed : Rooted(pathCalc.allowed[i]) ) =>
               (pathCalc.result <=>
                   \E i \in DOMAIN pathCalc.allowed :
                       Within(pathCalc.path, pathCalc.allowed[i]))

----------------------------------------------------------------------------
(* Broadcast and closed queues *)

\* C28: no broadcast, by the relay or by the scan task, sends on a queue
\* that has been closed, whatever Unsubscribe and closeSubscribers do
\* meanwhile: the process never ends in the panic of such a send.
C28_NoSendOnClosedQueue == crashed # "send on closed channel"

----------------------------------------------------------------------------
(* The relay and the terminal write *)

\* C29: the progress channel is closed and the relay has finished before the
\* scan task records the terminal status: once a run has a terminal status
\* the relay makes no UpdateScanRunProgress write for it and starts no
\* broadcast of a status=running event for it.
C29_RelayDoneBeforeTerminal ==
    [][\A r \in RunIds :
          scanRuns[r].status \in Terminal =>
              /\ scanRuns'[r].progress = scanRuns[r].progress
              /\ ~(relayPc[r] = "bcast" /\ relayPc'[r] = "recv")]_vars

----------------------------------------------------------------------------
(* Attribution of the terminal state *)

\* the context of run r was cancelled while Group was still going on
CancelledDuringGroup(r) == cancelAt[r] \in {"child", "drained", "wait"}

\* C30: when the scan task records the outcome of a failed engine invocation,
\* it records cancelled only if the context was cancelled while the invocation
\* was going on; an invocation that had already ended with an error of its
\* own is recorded failed with that error as the message, also when CancelScan
\* has been called since.
C30_FailedStaysFailed ==
    [][\A r \in RunIds :
          taskPc[r] = "group" /\ taskPc'[r] = "bcast" /\ engineRet[r] # "ok" =>
              /\ scanRuns'[r].status = "cancelled" => CancelledDuringGroup(r)
              /\ ~CancelledDuringGroup(r) =>
                     /\ scanRuns'[r].status = "failed"
                     /\ scanRuns'[r].error = engineRet[r]]_vars

----------------------------------------------------------------------------
(* What a reader of a closed queue finds in the store *)

\* C31: the scan task writes the terminal status before it closes the run's
\* subscriber queues: a reader that is still subscribed (it has not called
\* Unsubscribe itself) and whose queue is closed reads a terminal status for
\* its run from the store, never running.
C31_ClosedQueueReadsTerminal ==
    \A c \in Chans :
        chClosed[c] /\ clientPc[c] = "subscribed" =>
            scanRuns[clientRun[c]].status \in Terminal

\* the scan task has just closed the queue of a subscribed reader whose last
\* taken event, if any, was not terminal, and the store holds cancelled
C31_Witness ==
    \E c \in Chans :
        /\ chClosed[c] /\ clientPc[c] = "subscribed"
        /\ taskPc[clientRun[c]] = "done"
        /\ lastRecv[c].status \notin Terminal
        /\ scanRuns[clientRun[c]].status = "cancelled"

----------------------------------------------------------------------------
(* Started scans come to an end *)

\* the scan task of run r has recorded a terminal status, removed the cancel
\* handle and closed the run's subscriber queues
Ended(r) ==
    /\ scanRuns[r].status \in Terminal
    /\ r \notin activeScans
    /\ taskPc[r] = "done"
    /\ subs[r] = NilSlice

\* C32: every scan started by StartScan eventually has a terminal status, no
\* cancel handle in activeScans and its subscriber queues closed, given that
\* the engine invocation returns.
C32_StartedScanEnds ==
    \A r \in ScanRuns : (r \in activeScans) ~> Ended(r)

\* the same, unless the process has died of a send on a closed queue
C32_EndsUnlessCrashed ==
    \A r \in ScanRuns : (r \in activeScans) ~> (Ended(r) \/ crashed # "")

\* the process has died while the run is still recorded as running, its
\* cancel handle still registered
C32_CrashedWhileRunning ==
    \E r \in ScanRuns :
        /\ crashed # ""
        /\ scanRuns[r].status = "running"
        /\ r \in activeScans

----------------------------------------------------------------------------
(* Stop and the scans of scheduled jobs *)

\* C33: cancelling the scheduler's root context cancels the work of every
\* in-flight scheduled job: a scan that a job task launched under a root
\* context that has been cancelled, and whose scan task has not yet removed
\* its cancel handle, has a cancelled scan context.
C33_StopCancelsScheduledScans ==
    \A t \in DOMAIN jobTasks :
        /\ jobTasks[t].run \in RunIds
        /\ rootCancelled[jobTasks[t].ctx]
        /\ jobTasks[t].run \in activeScans
        => ctxCancelled[jobTasks[t].run]

\* Stop has returned and the scan a job launched before it goes on to
\* status completed, its context never cancelled
C33_ScanOutlivesStop ==
    \E t \in DOMAIN jobTasks :
        /\ jobTasks[t].run \in RunIds
        /\ rootCancelled[jobTasks[t].ctx]
        /\ stopped
        /\ ~ctxCancelled[jobTasks[t].run]
        /\ scanRuns[jobTasks[t].run].status = "completed"

----------------------------------------------------------------------------
(* Job tasks of one job *)

\* the job task t has been spawned and has not returned
InFlight(t) == jobTasks[t].pc # "done"

\* C34: at most one job task per scheduled job is in flight at any time, so
\* that no job has two scans launched by its tasks in activeScans at once.
C34_OneTaskPerJob ==
    \A t1, t2 \in DOMAIN jobTasks :
        t1 # t2 /\ jobTasks[t1].job = jobTasks[t2].job =>
            /\ ~(InFlight(t1) /\ InFlight(t2))
            /\ ~(/\ jobTasks[t1].run \in activeScans
                 /\ jobTasks[t2].run \in activeScans)

\* two tasks of one job wait for their scans, both scans running
C34_TwoTasksWaiting ==
    \E t1, t2 \in DOMAIN jobTasks :
        /\ t1 # t2 /\ jobTasks[t1].job = jobTasks[t2].job
        /\ jobTasks[t1].pc = "wait" /\ jobTasks[t2].pc = "wait"
        /\ jobTasks[t1].run # jobTasks[t2].run
        /\ {jobTasks[t1].run, jobTasks[t2].run} \subseteq activeScans

----------------------------------------------------------------------------
(* After Stop has returned *)

\* Stop has returned, no Stop call is waiting and the scheduler has not been
\* started since the last Stop took the lock
StoppedForGood == stopped /\ ~schedRunning /\ stopPc = "idle"

\* C35: after Stop has returned, and until Start is called again, no scan is
\* started (no scan_runs row is created, no cancel handle registered) and no
\* action is begun, also when a checkJobs pass was in progress when Stop was
\* called.
C35_NothingStartsAfterStop ==
    [][StoppedForGood =>
          /\ \A r \in RunIds : scanRuns[r].status = "none" => scanRuns'[r].status = "none"
          /\ activeScans' \subseteq activeScans
          /\ Len(actions') = Len(actions)]_vars

\* Stop has returned and the pass that was in progress has spawned a task
\* for a job with paths, which is about to look at its context
C35_Witness ==
    /\ StoppedForGood
    /\ \E t \in DOMAIN jobTasks :
          /\ jobTasks[t].pc = "start"
          /\ jobs[jobTasks[t].job].hasPaths
          /\ FreeRuns # {}

----------------------------------------------------------------------------
(* Groups of a completed run *)

\* the duplicate_groups rows of run r
GroupsOfRun(tbl, r) == {g \in DOMAIN tbl : tbl[g].run = r}

\* C36: whenever the store shows a run completed, all its groups have been
\* inserted: the scan task is past its store loop and no duplicate_groups row
\* of the run is inserted from then on, so the groups an action of the
\* scheduler names are all the groups the run will ever have.
C36_CompletedHasAllGroups ==
    /\ [][\A r \in RunIds :
              scanRuns[r].status = "completed" =>
                  GroupsOfRun(groups', r) = GroupsOfRun(groups, r)]_vars
    /\ [](\A r \in RunIds :
              scanRuns[r].status = "completed" => taskPc[r] \in AfterTerminalWrite)
    /\ [](\A q \in Reqs :
              reqPc[q] # "idle" /\ actions[req[q].action].via = "scheduler" =>
                  req[q].ids = GroupsOfRun(groups, actions[req[q].action].run))

\* the poller of a job task has found its run completed and has begun an
\* action on the groups of the run
C36_Witness ==
    \E t \in DOMAIN jobTasks : \E q \in Reqs :
        /\ jobTasks[t].pc = "action"
        /\ scanRuns[jobTasks[t].run].status = "completed"
        /\ req[q].action = jobTasks[t].action
        /\ req[q].ids = GroupsOfRun(groups, jobTasks[t].run)
        /\ req[q].ids # {}

----------------------------------------------------------------------------
(* Actions and the groups of other runs *)

\* C37: ExecuteAction(runId, groupIds, ...) changes the status of no group
\* that belongs to another run than runId: a step that changes the status of
\* a group is the end of an action recorded for the run of that group.
C37_ActionKeepsToItsRun ==
    [][\A g \in DOMAIN groups :
          groups'[g].status # groups[g].status =>
              \E q \in Reqs :
                  /\ reqPc[q] = "finish" /\ reqPc'[q] = "idle"
                  /\ g \in req[q].ids
                  /\ actions[req[q].action].run = groups[g].run]_vars

\* a completed real action recorded for one run, a group of another run
\* processed although no action was recorded for that run
C37_ForeignGroupProcessed ==
    \E g \in DOMAIN groups :
        /\ groups[g].status = "processed"
        /\ \A i \in DOMAIN actions : actions[i].run # groups[g].run

----------------------------------------------------------------------------
(* Groups handed to the engine twice *)

\* the engine invocation c belongs to an action that is not a dry run
RealCall(c) == ~actions[c.action].dryRun

\* C38: no group is handed to the engine by two non-dry-run actions: the
\* input of a non-dry-run engine invocation holds no group that an earlier
\* real action has processed, and no two non-dry-run invocations have a
\* group in common.
C38_NoSecondRealRun ==
    [][\A c \in engineCalls' \ engineCalls :
          RealCall(c) =>
              /\ \A g \in c.input : groups[g].status # "processed"
              /\ \A d \in engineCalls :
                     d.action # c.action /\ RealCall(d) => d.input \cap c.input = {}]_vars

\* the engine has been run for real on a group that was processed already,
\* and the action has completed
C38_ProcessedGroupRunAgain ==
    \E c \in engineCalls : \E g \in c.input :
        /\ RealCall(c)
        /\ groups[g].status = "processed"
        /\ actions[c.action].status = "completed"
        /\ "--dry-run" \notin Range(c.args)

----------------------------------------------------------------------------
(* The complete event *)

\* C39: the complete event a handler sends carries the terminal status the
\* run has in the store, also when the terminal-status event was dropped at
\* the handler's full queue and the handler only finds its queue closed.
C39_CompleteCarriesStatus ==
    \A c \in Chans :
        sse[c].complete # "" => sse[c].complete = scanRuns[clientRun[c]].status

\* a handler that never took a terminal event has found its queue closed
\* and has sent complete with completed for a run that was cancelled
C39_CompletedForCancelled ==
    \E c \in Chans :
        /\ sse[c].complete = "completed"
        /\ ~sse[c].late
        /\ lastRecv[c].status = "running"
        /\ chClosed[c]
        /\ scanRuns[clientRun[c]].status = "cancelled"

----------------------------------------------------------------------------
(* Final counters of a successful scan *)

\* UpdateScanRunProgress sets the five counters of a row in one UPDATE from
\* the values of one caller: the write that files_scanned and bytes_scanned
\* were last set by, and the writer of duplicate_groups, duplicate_files and
\* wasted_bytes
ScannedCounters(row) == row.progress
GroupCounters(row) == row.progress.by

\* the relay of run r has handled a progress event, the last being seq
RelayHandled(r) == taskEv["relay", r].status = "running"

\* C40: on a successful scan during which the relay handled progress events,
\* the files_scanned and bytes_scanned of the row are those of the last
\* progress event the relay handled, and the group and redundancy counters
\* are those of the engine's header stats.
C40_FinalCountersFromSnapshot ==
    \A r \in RunIds :
        scanRuns[r].status = "completed" /\ RelayHandled(r) =>
            /\ ScannedCounters(scanRuns[r]) =
                   [by |-> "relay", seq |-> taskEv["relay", r].seq]
            /\ GroupCounters(scanRuns[r]) = "stats"

\* a completed run whose relay had handled a progress event and finished
\* before the final write: all five counters are the header stats
C40_AllFromStats ==
    \E r \in RunIds :
        /\ scanRuns[r].status = "completed"
        /\ taskPc[r] = "done"
        /\ RelayHandled(r)
        /\ relayPc[r] = "exit"
        /\ scanRuns[r].progress = [by |-> "stats", seq |-> 0]

====
